---------------------------- MODULE Spec2Model ----------------------------
(***************************************************************************)
(* IGC2FDR: the track-building pipeline of igc_parser.py (header pass,     *)
(* grouping of B records by second, duplicate resolution, gap filling,     *)
(* attitude estimation, smoothing/trim, DREF evaluation) together with the *)
(* parts of igc_config.py and igc_utils.py it calls.                       *)
(*                                                                         *)
(* Number representation (the source computes in IEEE doubles; the model   *)
(* computes in fixed point, every value an integer count of the unit):     *)
(*   TIME            seconds since 2000-01-01 00:00:00                     *)
(*   LAT, LONG       1e-9 degree / InterpDenominator                       *)
(*   ALTMSL          1e-4 foot   / InterpDenominator                       *)
(*   HEADING, PITCH, ROLL, trims, Course, Pitch, Bank    1e-4 degree       *)
(*   distances       millimetre                                            *)
(*   Speed           1e-2 knot;  VerticalSpeed  1e-2 foot/minute           *)
(*   damping factors tenths                                                *)
(* InterpDenominator = lcm(1..10) makes i/N interpolation exact for every  *)
(* gap the source fills.  The flights of the model lie within a few        *)
(* thousandths of an arc-minute of 0N 0E, where the haversine and bearing  *)
(* formulas agree with their planar forms: over the coordinates of the     *)
(* model the distances differ from the source's by less than 1 mm and the  *)
(* headings by less than 4e-4 degree.  datetime.now() is a whole second of *)
(* the day TodayOrdinal.                                                   *)
(***************************************************************************)
EXTENDS Integers, Sequences, FiniteSets, TLC

\* ------------------------------------------------------------------------
\* Arithmetic helpers
\* ------------------------------------------------------------------------

Abs(x) == IF x < 0 THEN -x ELSE x

Max2(a, b) == IF a >= b THEN a ELSE b

\* Nearest integer to a/b (b > 0), ties to the even neighbour: Python's round().
RoundDiv(a, b) ==
    LET q == a \div b
        r == a % b
    IN  IF 2 * r < b THEN q
        ELSE IF 2 * r > b THEN q + 1
        ELSE IF q % 2 = 0 THEN q ELSE q + 1

\* round(x, 3) of an angle held in 1e-4 degree: the nearest multiple of 10.
Round3(x) == 10 * RoundDiv(x, 10)

\* Integer square root by bisection on [lo, hi].
RECURSIVE IsqrtBetween(_, _, _)
IsqrtBetween(n, lo, hi) ==
    IF lo >= hi THEN lo
    ELSE LET mid == (lo + hi + 1) \div 2
         IN  IF mid * mid <= n THEN IsqrtBetween(n, mid, hi)
             ELSE IsqrtBetween(n, lo, mid - 1)

Isqrt(n) == IsqrtBetween(n, 0, 46340)

\* atan(2^-i) in 1e-4 degree, i = 0..19.
AtanTable ==
    << 450000, 265651, 140362, 71250, 35763, 17899, 8952, 4476, 2238, 1119,
       560, 280, 140, 70, 35, 17, 9, 4, 2, 1 >>

RECURSIVE Pow2(_)
Pow2(i) == IF i = 0 THEN 1 ELSE 2 * Pow2(i - 1)

\* CORDIC vectoring: the angle of (x, y), x >= 0, accumulated in z.
RECURSIVE Cordic(_, _, _, _)
Cordic(x, y, z, i) ==
    IF i > Len(AtanTable) \/ y = 0 THEN z
    ELSE LET p == Pow2(i - 1)
         IN  IF y > 0
             THEN Cordic(x + (y \div p), y - (x \div p), z + AtanTable[i], i + 1)
             ELSE Cordic(x - (y \div p), y + (x \div p), z - AtanTable[i], i + 1)

\* math.degrees(math.atan2(y, x)) in 1e-4 degree, in (-180, 180] degrees.
Atan2Deg(y, x) ==
    LET a == Abs(y)
        b == Abs(x)
        m == Max2(a, b)
        k == IF m = 0 THEN 1 ELSE Max2(1, 134217728 \div m)
        t == IF a = 0 THEN 0
             ELSE IF b = 0 THEN 900000
             ELSE Cordic(b * k, a * k, 0, 1)
    IN  IF x >= 0 THEN (IF y >= 0 THEN t ELSE -t)
        ELSE (IF y >= 0 THEN 1800000 - t ELSE t - 1800000)


\* ------------------------------------------------------------------------
\* Program constants (igc_constants.py, igc_parser.py)
\* ------------------------------------------------------------------------

DEGREES_IN_CIRCLE == 3600000      \* 360 degrees
MAX_ATTITUDE_ANGLE == 1800000     \* 180 degrees
DEFAULT_ROLL_FACTOR == 6          \* 0.6
DEFAULT_PITCH_FACTOR == 8         \* 0.8
DEFAULT_SMOOTHING_FACTOR == 3     \* 0.3
DEFAULT_HEADING_TRIM == 0
DEFAULT_PITCH_TRIM == 0
DEFAULT_ROLL_TRIM == 0
DEFAULT_TIMEZONE == 0
DEFAULT_UNKNOWN_TEXT == "UNKNOWN"
DEFAULT_AIRCRAFT == "Aircraft/Laminar Research/Schleicher ASK 21/ASK21.acf"
CONFIG_SECTION_DEFAULTS == "Defaults"
DEFAULT_DREF_GROUND_SPEED ==
    << "sim", "cockpit2", "gauges", "indicators", "ground_speed_kt" >>
FDR_COLUMN_WIDTH == 19
MIN_B_RECORD_LENGTH == 35         \* len(line) < 35 is skipped
MAX_GAP_SECONDS == 10             \* gap_seconds > 10 is not filled
SECONDS_PER_DAY == 86400          \* strftime("%H%M%S") drops the date
SECONDS_PER_MINUTE == 60

\* lcm(1..10): the denominators i/N of the gaps _fill_time_gap fills.
InterpDenominator == 8 * 9 * 5 * 7

\* Optional values: << >> is Python's None, <<v>> the value v.
None == << >>

Some(v) == <<v>>

IsNone(o) == o = << >>

\* An absent text field (FlightMeta's Optional[str] defaults).
NoText == ""

\* A numeric field of a record line: <<n>> when int() yields n, NotInt when
\* int() raises ValueError.
NotInt == << >>

IsInt(f) == f # NotInt

IntOf(f) == f[1]

\* ------------------------------------------------------------------------
\* Dates: datetime.date(year, month, day) as days since 2000-01-01
\* ------------------------------------------------------------------------

IsLeap(y) == (y % 4 = 0 /\ y % 100 # 0) \/ y % 400 = 0

DaysInMonth(y, m) ==
    IF m = 2 THEN (IF IsLeap(y) THEN 29 ELSE 28)
    ELSE IF m \in {4, 6, 9, 11} THEN 30 ELSE 31

RECURSIVE DaysBeforeMonth(_, _)
DaysBeforeMonth(y, m) ==
    IF m <= 1 THEN 0 ELSE DaysBeforeMonth(y, m - 1) + DaysInMonth(y, m - 1)

RECURSIVE DaysBeforeYear(_)
DaysBeforeYear(y) ==
    IF y <= 2000 THEN 0
    ELSE DaysBeforeYear(y - 1) + (IF IsLeap(y - 1) THEN 366 ELSE 365)

\* date(year, month, day) raises ValueError outside the calendar.
ValidDate(y, m, d) == m \in 1..12 /\ d >= 1 /\ d <= DaysInMonth(y, m)

DateOrdinal(y, m, d) == DaysBeforeYear(y) + DaysBeforeMonth(y, m) + (d - 1)

\* The calendar date (as an ordinal) of a timestamp.
DateOfTime(t) == t \div SECONDS_PER_DAY

\* point.TIME.strftime("%H%M%S"): the time of day, the date dropped.
TimestampKey(t) == t % SECONDS_PER_DAY

\* ------------------------------------------------------------------------
\* Record lines.  A line is held by its length after strip(), its first
\* character and its fixed-column fields (the fields of the other record
\* types are blank):
\*   H record: code = line[1:5], dd/mm/yy = line[5:7], [7:9], [9:11],
\*             value = the text after the code and its prefix
\*   B record: hh/mi/ss = line[1:3], [3:5], [5:7]; latitude line[7:15];
\*             longitude line[15:24]; apos = line.find('A', 23), 24 for fix
\*             validity 'A', -1 when absent; altP/altG the altitude columns
\* ------------------------------------------------------------------------

BlankLine ==
    [type |-> "", len |-> 0, code |-> "", dd |-> NotInt, mm |-> NotInt,
     yy |-> NotInt, value |-> "", hh |-> NotInt, mi |-> NotInt, ss |-> NotInt,
     latDeg |-> NotInt, latMin |-> NotInt, latFrac |-> NotInt, latDir |-> "",
     lonDeg |-> NotInt, lonMin |-> NotInt, lonFrac |-> NotInt, lonDir |-> "",
     apos |-> -1, altP |-> NotInt, altG |-> NotInt]

HLine(code, len, dd, mm, yy, value) ==
    [BlankLine EXCEPT !.type = "H", !.code = code, !.len = len, !.dd = dd,
                      !.mm = mm, !.yy = yy, !.value = value]

BLine(len, hh, mi, ss, latFrac, latDir, lonFrac, lonDir, apos, altP, altG) ==
    [BlankLine EXCEPT !.type = "B", !.len = len, !.hh = <<hh>>, !.mi = <<mi>>,
                      !.ss = <<ss>>, !.latDeg = <<0>>, !.latMin = <<0>>,
                      !.latFrac = <<latFrac>>, !.latDir = latDir,
                      !.lonDeg = <<0>>, !.lonMin = <<0>>,
                      !.lonFrac = <<lonFrac>>, !.lonDir = lonDir,
                      !.apos = apos, !.altP = <<altP>>, !.altG = <<altG>>]

OtherLine(type, len) == [BlankLine EXCEPT !.type = type, !.len = len]

\* ------------------------------------------------------------------------
\* IgcHeaderParser
\* ------------------------------------------------------------------------

\* strip_prefixes is applied to the value; the model's value fields hold the
\* text after the configured prefix.
ParseHeaderLine(line, meta, fdate, todayOrd) ==
    IF line.len < 5 \/ line.type # "H" THEN [meta |-> meta, date |-> fdate]
    ELSE IF line.code = "FGID" /\ line.len > 5
         THEN [meta |-> [meta EXCEPT !.TailNumber = line.value], date |-> fdate]
    ELSE IF line.code = "FPLT" /\ line.len > 5
         THEN [meta |-> [meta EXCEPT !.Pilot = line.value], date |-> fdate]
    ELSE IF line.code = "FDTE" /\ line.len > 11
         THEN IF IsInt(line.dd) /\ IsInt(line.mm) /\ IsInt(line.yy)
                 /\ ValidDate(2000 + IntOf(line.yy), IntOf(line.mm),
                              IntOf(line.dd))
              THEN [meta |-> meta,
                    date |-> Some(DateOrdinal(2000 + IntOf(line.yy),
                                              IntOf(line.mm), IntOf(line.dd)))]
              ELSE [meta |-> meta, date |-> Some(todayOrd)]
    ELSE [meta |-> meta, date |-> fdate]

\* ------------------------------------------------------------------------
\* IgcPositionParser.  A parse result is [err |-> TRUE] (ValueError) or
\* [err |-> FALSE, val |-> ...].
\* ------------------------------------------------------------------------

Raise == [err |-> TRUE]

Ok(v) == [err |-> FALSE, val |-> v]

ParseTime(line, fdate, todayOrd) ==
    IF ~(IsInt(line.hh) /\ IsInt(line.mi) /\ IsInt(line.ss)) THEN Raise
    ELSE IF ~(IntOf(line.hh) \in 0..23 /\ IntOf(line.mi) \in 0..59
              /\ IntOf(line.ss) \in 0..59)
         THEN Raise
    ELSE LET base == IF ~IsNone(fdate) THEN fdate[1] ELSE todayOrd
         IN  Ok(base * SECONDS_PER_DAY
                + IntOf(line.hh) * 3600 + IntOf(line.mi) * 60 + IntOf(line.ss))

\* deg + (min + frac/1000)/60 degrees, rounded to 9 decimals by the caller.
ParseAngle(deg, min, frac, dir, negDir) ==
    IF ~(IsInt(deg) /\ IsInt(min) /\ IsInt(frac)) THEN Raise
    ELSE LET thousandths == IntOf(deg) * 60000 + IntOf(min) * 1000 + IntOf(frac)
             nano == RoundDiv(thousandths * 50000, 3)
         IN  Ok(IF dir = negDir THEN -(nano * InterpDenominator)
                ELSE nano * InterpDenominator)

ParseLatitude(line) ==
    ParseAngle(line.latDeg, line.latMin, line.latFrac, line.latDir, "S")

ParseLongitude(line) ==
    ParseAngle(line.lonDeg, line.lonMin, line.lonFrac, line.lonDir, "W")

\* Returns <<alt_pressure, alt_gps>> in metres.
ParseAltitude(line) ==
    IF line.apos > 0
    THEN IF ~IsInt(line.altP) THEN Raise
         ELSE IF line.len >= line.apos + 11 /\ IsInt(line.altG)
              THEN Ok(<<IntOf(line.altP), IntOf(line.altG)>>)
              ELSE Ok(<<IntOf(line.altP), IntOf(line.altP)>>)
    ELSE IF ~IsInt(line.altP) THEN Ok(<<0, 0>>)
         ELSE IF line.len >= 36 /\ IsInt(line.altG)
              THEN Ok(<<IntOf(line.altP), IntOf(line.altG)>>)
              ELSE Ok(<<IntOf(line.altP), IntOf(line.altP)>>)

\* round(alt_gps * FEET_PER_METER, 4)
MetersToFeet(m) == RoundDiv(m * 328084, 10) * InterpDenominator

NoDrefs == << >>

ParsePositionRecord(line, fdate, tz, todayOrd) ==
    LET t == ParseTime(line, fdate, todayOrd)
        la == ParseLatitude(line)
        lo == ParseLongitude(line)
        al == ParseAltitude(line)
    IN  IF t.err \/ la.err \/ lo.err \/ al.err THEN Raise
        ELSE Ok([TIME |-> t.val + tz, LAT |-> la.val, LONG |-> lo.val,
                 ALTMSL |-> MetersToFeet(al.val[2]),
                 HEADING |-> 0, PITCH |-> 0, ROLL |-> 0,
                 drefs |-> NoDrefs, synthetic |-> FALSE])

\* ------------------------------------------------------------------------
\* igc_utils.py: angle normalisation and geometry
\* ------------------------------------------------------------------------

\* degrees % 360 (Python's floored modulo: the result is in [0, 360)).
wrapHeading(degrees) == degrees % DEGREES_IN_CIRCLE

\* degrees % -360 in Python lies in (-360, 0].
wrapAttitude(degrees) ==
    LET d == IF degrees >= 0 THEN degrees % DEGREES_IN_CIRCLE
             ELSE -((-degrees) % DEGREES_IN_CIRCLE)
    IN  IF d > MAX_ATTITUDE_ANGLE THEN d - DEGREES_IN_CIRCLE
        ELSE IF d < -MAX_ATTITUDE_ANGLE THEN d + DEGREES_IN_CIRCLE
        ELSE d

\* A coordinate difference b - a in units of `unit` * 1e-9 degree.
CoordDelta(a, b, unit) == RoundDiv(b - a, InterpDenominator * unit)

\* Haversine distance in millimetres.  Near 0N 0E the great circle between
\* two points is sqrt(dlat^2 + dlon^2) radians of arc to below a millimetre;
\* 5e-9 degree of arc on a sphere of EARTH_RADIUS_METERS is 0.555975 mm.
calculateDistance(lat1, lon1, lat2, lon2) ==
    LET dlat == CoordDelta(lat1, lat2, 5)
        dlon == CoordDelta(lon1, lon2, 5)
    IN  RoundDiv(Isqrt(dlat * dlat + dlon * dlon) * 5560, 10000)

\* A bearing that ignores the fallback and the distance: atan2(0, 0) = 0 for
\* identical points, the behaviour C14 rules out.
BearingWithoutFallback(lat1, lon1, lat2, lon2, fallback) ==
    (Atan2Deg(CoordDelta(lon1, lon2, 1), CoordDelta(lat1, lat2, 1))
     + DEGREES_IN_CIRCLE) % DEGREES_IN_CIRCLE

\* Initial bearing in 1e-4 degree; fallback is None or Some(heading).
calculateHeading(lat1, lon1, lat2, lon2, fallback) ==
    LET distance == calculateDistance(lat1, lon1, lat2, lon2)
        y == CoordDelta(lon1, lon2, 1)
        x == CoordDelta(lat1, lat2, 1)
        heading_deg == (Atan2Deg(y, x) + DEGREES_IN_CIRCLE) % DEGREES_IN_CIRCLE
    IN  IF distance < 1000
        THEN (IF ~IsNone(fallback) THEN fallback[1] ELSE DEGREES_IN_CIRCLE)
        ELSE IF x = 0 /\ y = 0
        THEN (IF ~IsNone(fallback) THEN fallback[1] ELSE DEGREES_IN_CIRCLE)
        ELSE IF heading_deg < 10 THEN DEGREES_IN_CIRCLE
        ELSE heading_deg

\* ------------------------------------------------------------------------
\* AttitudeCalculator
\* ------------------------------------------------------------------------

ZeroDerived ==
    [Speed |-> 0, Course |-> 0, VerticalSpeed |-> 0, Pitch |-> 0, Bank |-> 0]

\* abs(a - b) folded to the shorter way round the circle.
HeadingChange(a, b) ==
    LET hc0 == Abs(a - b)
    IN  IF hc0 > 1800000 THEN 3600000 - hc0 ELSE hc0

\* (dist / time_diff) * KNOTS_PER_MPS in 1e-4 knot, dist in millimetres.
SpeedKts(dist, time_diff) == RoundDiv(dist * 19438, 1000 * time_diff)

\* (alt_change / time_diff) * SECONDS_PER_MINUTE in 1e-2 ft/min.
VertSpeed(alt_change, time_diff) ==
    RoundDiv(alt_change,
             (InterpDenominator \div SECONDS_PER_MINUTE) * 100 * time_diff)

\* math.degrees(math.atan2(alt_change, dist * FEET_PER_METER)): both
\* arguments in 1e-4 foot.
PitchAngle(alt_change, dist) ==
    Atan2Deg(RoundDiv(alt_change, InterpDenominator), RoundDiv(dist * 3281, 100))

\* atan2(speed_ms * turn_rate * RADIANS_PER_DEGREE, EARTH_GRAVITY), negated
\* for a left turn: speed in mm/s, turn rate in 1e-4 rad/s, gravity in
\* 1e-7 m/s^2.
RollAngle(speed_kts, heading_change, heading_diff, time_diff) ==
    (IF heading_diff > 1800000 THEN -1 ELSE 1)
    * Atan2Deg(RoundDiv(speed_kts * 5144, 100000)
               * RoundDiv(heading_change * 349, 20000 * time_diff),
               98100000)

\* The assignments of calculate_derived_values once its quantities are
\* known: [point, derived].
DerivedValues(current_point, dist, heading, speed_kts, vert_speed, pitch_angle, heading_change, roll_angle) ==
    [point |-> [current_point EXCEPT
                   !.HEADING = Round3(heading),
                   !.PITCH = IF dist > 0 THEN Round3(pitch_angle) ELSE @,
                   !.ROLL = IF heading_change > 0 THEN Round3(roll_angle) ELSE @],
     derived |-> [Speed |-> RoundDiv(speed_kts, 100),
                  Course |-> heading,
                  VerticalSpeed |-> vert_speed,
                  Pitch |-> IF dist > 0 THEN pitch_angle ELSE 0,
                  Bank |-> IF heading_change > 0 THEN roll_angle ELSE 0]]

\* The estimation once the distance and the bearing are known.
EstimateFrom(current_point, prev_point, time_diff, dist, heading) ==
    DerivedValues(current_point, dist, heading,
        SpeedKts(dist, time_diff),
        VertSpeed(current_point.ALTMSL - prev_point.ALTMSL, time_diff),
        PitchAngle(current_point.ALTMSL - prev_point.ALTMSL, dist),
        HeadingChange(Round3(heading), prev_point.HEADING),
        RollAngle(SpeedKts(dist, time_diff),
                  HeadingChange(Round3(heading), prev_point.HEADING),
                  (Round3(heading) - prev_point.HEADING + 3600000) % 3600000,
                  time_diff))

\* Returns [point, derived]: the current point with HEADING/PITCH/ROLL
\* assigned in place, and the dictionary of derived values.
calculate_derived_values(current_point, prev_point, time_diff) ==
    IF time_diff <= 0
    THEN [point |-> current_point, derived |-> ZeroDerived]
    ELSE EstimateFrom(current_point, prev_point, time_diff,
             calculateDistance(prev_point.LAT, prev_point.LONG,
                               current_point.LAT, current_point.LONG),
             calculateHeading(prev_point.LAT, prev_point.LONG,
                              current_point.LAT, current_point.LONG,
                              Some(prev_point.HEADING)))

\* The post-trim discontinuity test of apply_smoothing.
TrimDiscontinuity(original_heading, new_heading) ==
    original_heading > 0
    /\ HeadingChange(new_heading, original_heading) > 450000

\* Scaling by the damping factors.
ScaleAttitude(current_point, tail_config) ==
    [current_point EXCEPT
        !.ROLL = RoundDiv(current_point.ROLL * tail_config.rollfactor, 10),
        !.PITCH = RoundDiv(current_point.PITCH * tail_config.pitchfactor, 10)]

\* Exponential smoothing against the previous point.
SmoothAttitude(current_point, prev_point) ==
    LET smoothing == DEFAULT_SMOOTHING_FACTOR
        d0 == current_point.HEADING - prev_point.HEADING
        heading_diff == IF d0 > 1800000 THEN d0 - 3600000
                        ELSE IF d0 < -1800000 THEN d0 + 3600000 ELSE d0
        s0 == prev_point.HEADING + RoundDiv(heading_diff * (10 - smoothing), 10)
        smoothed_heading == IF s0 < 0 THEN s0 + 3600000
                            ELSE IF s0 >= 3600000 THEN s0 - 3600000 ELSE s0
    IN  [current_point EXCEPT
            !.HEADING = smoothed_heading,
            !.PITCH = RoundDiv(prev_point.PITCH * smoothing
                               + current_point.PITCH * (10 - smoothing), 10),
            !.ROLL = RoundDiv(prev_point.ROLL * smoothing
                              + current_point.ROLL * (10 - smoothing), 10)]

\* The heading fallback before the trim: a heading of 0 takes the previous
\* point's heading when that is not 0.
ValidHeading(current_point, prev) ==
    IF current_point.HEADING = 0 /\ ~IsNone(prev) /\ prev[1].HEADING # 0
    THEN prev[1].HEADING
    ELSE current_point.HEADING

\* The heading trim, and the pitch/roll trim of the discontinuity branch.
TrimFrom(current_point, original_heading, tail_config) ==
    LET trimmed == Round3(wrapHeading(original_heading + tail_config.headingtrim))
    IN  IF TrimDiscontinuity(original_heading, trimmed)
        THEN [current_point EXCEPT
                !.HEADING = trimmed,
                !.PITCH = Round3(wrapAttitude(@ + tail_config.pitchtrim)),
                !.ROLL = Round3(wrapAttitude(@ + tail_config.rolltrim))]
        ELSE [current_point EXCEPT !.HEADING = trimmed]

ApplyTrim(current_point, prev, tail_config) ==
    TrimFrom(current_point, ValidHeading(current_point, prev), tail_config)

\* prev is None or Some(previous point).
apply_smoothing(current_point, prev, tail_config) ==
    ApplyTrim(IF ~IsNone(prev)
              THEN SmoothAttitude(ScaleAttitude(current_point, tail_config),
                                  prev[1])
              ELSE ScaleAttitude(current_point, tail_config),
              prev, tail_config)

\* ------------------------------------------------------------------------
\* TrackBuilder helpers
\* ------------------------------------------------------------------------

\* A scan that also replaces the kept candidate by an equally near later
\* one: the last among ties, which C4 rules out.
RECURSIVE ClosestOrLaterFrom(_, _, _, _, _)
ClosestOrLaterFrom(candidates, prev_point, k, best, best_distance) ==
    IF k > Len(candidates) THEN best
    ELSE LET distance == calculateDistance(prev_point.LAT, prev_point.LONG,
                                           candidates[k].LAT, candidates[k].LONG)
         IN  IF best = 0 \/ distance <= best_distance
             THEN ClosestOrLaterFrom(candidates, prev_point, k + 1, k, distance)
             ELSE ClosestOrLaterFrom(candidates, prev_point, k + 1, best,
                                     best_distance)

\* The index of the candidate the scan keeps: the first one strictly closer
\* than every earlier candidate.
RECURSIVE ClosestFrom(_, _, _, _, _)
ClosestFrom(candidates, prev_point, k, best, best_distance) ==
    IF k > Len(candidates) THEN best
    ELSE LET distance == calculateDistance(prev_point.LAT, prev_point.LONG,
                                           candidates[k].LAT, candidates[k].LONG)
         IN  IF best = 0 \/ distance < best_distance
             THEN ClosestFrom(candidates, prev_point, k + 1, k, distance)
             ELSE ClosestFrom(candidates, prev_point, k + 1, best, best_distance)

\* prev is None or Some(previous point).
select_best_duplicate_point(candidates, prev) ==
    IF Len(candidates) = 1 THEN candidates[1]
    ELSE IF IsNone(prev) THEN candidates[1]
    ELSE candidates[ClosestFrom(candidates, prev[1], 1, 0, 0)]

\* The naive linear interpolation across the 0/360 boundary, which C15
\* rules out.
LinearHeading(start_heading, end_heading, num, den) ==
    (start_heading + RoundDiv((end_heading - start_heading) * num, den))
    % DEGREES_IN_CIRCLE

\* factor is the fraction num/den.
interpolate_heading(start_heading, end_heading, num, den) ==
    LET d0 == end_heading - start_heading
        diff == IF d0 > 1800000 THEN d0 - 3600000
                ELSE IF d0 < -1800000 THEN d0 + 3600000 ELSE d0
        interpolated == start_heading + RoundDiv(diff * num, den)
    IN  IF interpolated < 0 THEN interpolated + 3600000
        ELSE IF interpolated >= 3600000 THEN interpolated - 3600000
        ELSE interpolated

\* start + (end - start) * i / n, exact for coordinates held over
\* InterpDenominator.
Lerp(start, end, i, n) == start + ((end - start) \div n) * i

GapPoint(start_point, end_point, i, gap_seconds) ==
    [TIME |-> start_point.TIME + i,
     LAT |-> Lerp(start_point.LAT, end_point.LAT, i, gap_seconds),
     LONG |-> Lerp(start_point.LONG, end_point.LONG, i, gap_seconds),
     ALTMSL |-> Lerp(start_point.ALTMSL, end_point.ALTMSL, i, gap_seconds),
     HEADING |-> interpolate_heading(start_point.HEADING, end_point.HEADING,
                                     i, gap_seconds),
     PITCH |-> start_point.PITCH
               + RoundDiv((end_point.PITCH - start_point.PITCH) * i, gap_seconds),
     ROLL |-> start_point.ROLL
              + RoundDiv((end_point.ROLL - start_point.ROLL) * i, gap_seconds),
     drefs |-> NoDrefs, synthetic |-> TRUE]

\* The loop of _fill_time_gap.
GapPoints(start_point, end_point, gap_seconds) ==
    [end_point |-> end_point,
     gap_points |-> [i \in 1..(gap_seconds - 1) |->
                        GapPoint(start_point, end_point, i, gap_seconds)]]

\* Returns [end_point, gap_points]: the end point (its HEADING assigned when
\* it was 0) and the list of interpolated points.
fill_time_gap(start_point, end_point, gap_seconds) ==
    IF gap_seconds > MAX_GAP_SECONDS
    THEN [end_point |-> end_point, gap_points |-> << >>]
    ELSE GapPoints(start_point,
                   IF end_point.HEADING = 0
                   THEN [end_point EXCEPT !.HEADING =
                            calculateHeading(start_point.LAT, start_point.LONG,
                                             end_point.LAT, end_point.LONG, None)]
                   ELSE end_point,
                   gap_seconds)

\* ------------------------------------------------------------------------
\* igc_config.py.  Texts the code splits or slices are held by what the
\* operation yields: an instrument path by its '/'-separated parts, a
\* timezone text by its form and fields.  Numeric settings are numeric texts.
\* ------------------------------------------------------------------------

\* A timezone text: a number of hours ("1"), or [+-]H:MM:SS / [+-]H:MM.
TzHours(h) == [form |-> "number", hours |-> h]

TzClock(negative, parts) == [form |-> "clock", negative |-> negative, parts |-> parts]

secondsFromString(timezone) ==
    IF timezone.form = "number" THEN timezone.hours * 3600
    ELSE LET zone == timezone.parts
             n == Len(zone)
             seconds == IF n >= 3
                        THEN zone[n] + zone[n - 1] * 60 + zone[n - 2] * 3600
                        ELSE (zone[n] + zone[n - 1] * 60) * 60
         IN  IF timezone.negative THEN -seconds ELSE seconds

DrefDefinition(instrument, expression, name) ==
    [instrument |-> instrument, expression |-> expression, name |-> name]

\* name[:FDR_COLUMN_WIDTH] for the instrument names of the model.
Truncate(name) ==
    IF name = "compass_heading_deg_mag" THEN "compass_heading_deg" ELSE name

\* str.lower() for the column names of the model.
Lower(name) ==
    IF name = "GndSpd" THEN "gndspd"
    ELSE IF name = "GroundSpeed" THEN "groundspeed"
    ELSE IF name = "GROUND_SPEED" THEN "ground_speed"
    ELSE IF name = "Altimeter" THEN "altimeter"
    ELSE IF name = "Broken" THEN "broken"
    ELSE name

get_column_name(dref) ==
    IF dref.name # NoText THEN dref.name
    ELSE Truncate(dref.instrument[Len(dref.instrument)])

GROUND_SPEED_NAMES == {"groundspeed", "gndspd", "ground_speed"}

DefaultGroundSpeedDref ==
    DrefDefinition(DEFAULT_DREF_GROUND_SPEED, "round({Speed}, 4)", "GndSpd")

\* A configuration loader that leaves the default DREFs as the file gives
\* them: the behaviour C10 rules out.
KeepConfiguredDrefs(default_drefs) == default_drefs

add_default_ground_speed_dref(default_drefs) ==
    IF \E k \in 1..Len(default_drefs) :
           Lower(get_column_name(default_drefs[k])) \in GROUND_SPEED_NAMES
    THEN default_drefs
    ELSE Append(default_drefs, DefaultGroundSpeedDref)

\* A setting of a section: the section's value when present, else the default.
Setting(section, key, default) ==
    IF ~IsNone(section.values[key]) THEN section.values[key][1] ELSE default

\* The numeric keys of a section, each None (absent) or Some(value).
NoValues ==
    [headingtrim |-> None, pitchtrim |-> None, rolltrim |-> None,
     rollfactor |-> None, pitchfactor |-> None]

SectionSettings(section) ==
    [name |-> section.name,
     tail_numbers |-> section.tails,
     heading_trim |-> Setting(section, "headingtrim", DEFAULT_HEADING_TRIM),
     pitch_trim |-> Setting(section, "pitchtrim", DEFAULT_PITCH_TRIM),
     roll_trim |-> Setting(section, "rolltrim", DEFAULT_ROLL_TRIM),
     roll_factor |-> Setting(section, "rollfactor", DEFAULT_ROLL_FACTOR),
     pitch_factor |-> Setting(section, "pitchfactor", DEFAULT_PITCH_FACTOR),
     drefs |-> section.drefs]

\* A section is an aircraft section when its lower-cased name starts with
\* 'aircraft/'; the section record carries the outcome of that test.
IsAircraftSection(section) == section.aircraft

IsTailSection(section) ==
    ~section.aircraft /\ section.name # CONFIG_SECTION_DEFAULTS

RECURSIVE MapSettings(_)
MapSettings(sections) ==
    IF sections = << >> THEN << >>
    ELSE <<SectionSettings(Head(sections))>> \o MapSettings(Tail(sections))

get_aircraft_settings(file) ==
    MapSettings(SelectSeq(file.sections, IsAircraftSection))

parser_get_tail_settings(file) ==
    MapSettings(SelectSeq(file.sections, IsTailSection))

\* A configuration whose file timezones are read even when the command
\* line gives one.
FileTimezonesKept(file, cli) ==
    [aircraft |-> IF ~IsNone(cli.aircraft) THEN cli.aircraft[1]
                  ELSE IF ~IsNone(file.aircraft) THEN file.aircraft[1]
                  ELSE DEFAULT_AIRCRAFT,
     cli_aircraft |-> ~IsNone(cli.aircraft),
     timezone |-> IF ~IsNone(cli.timezone) THEN secondsFromString(cli.timezone[1])
                  ELSE IF ~IsNone(file.timezone)
                       THEN secondsFromString(file.timezone[1])
                  ELSE DEFAULT_TIMEZONE,
     timezoneIGC |-> IF ~IsNone(file.timezoneigc)
                     THEN Some(secondsFromString(file.timezoneigc[1]))
                     ELSE None,
     aircraft_settings |-> get_aircraft_settings(file),
     tail_settings |-> parser_get_tail_settings(file),
     default_drefs |-> add_default_ground_speed_dref(file.drefs)]

\* Config.__init__ and _load_config.  cli is [timezone, aircraft], each None
\* or Some(text).
load_config(file, cli) ==
    [aircraft |-> IF ~IsNone(cli.aircraft) THEN cli.aircraft[1]
                  ELSE IF ~IsNone(file.aircraft) THEN file.aircraft[1]
                  ELSE DEFAULT_AIRCRAFT,
     cli_aircraft |-> ~IsNone(cli.aircraft),
     timezone |-> IF ~IsNone(cli.timezone) THEN secondsFromString(cli.timezone[1])
                  ELSE IF ~IsNone(file.timezone)
                       THEN secondsFromString(file.timezone[1])
                  ELSE DEFAULT_TIMEZONE,
     timezoneIGC |-> IF IsNone(cli.timezone) /\ ~IsNone(file.timezoneigc)
                     THEN Some(secondsFromString(file.timezoneigc[1]))
                     ELSE None,
     aircraft_settings |-> get_aircraft_settings(file),
     tail_settings |-> parser_get_tail_settings(file),
     default_drefs |-> add_default_ground_speed_dref(file.drefs)]

\* The first aircraft section listing the tail number, from index k on.
RECURSIVE FirstMatch(_, _, _)
FirstMatch(aircraft_settings, tail_number, k) ==
    IF k > Len(aircraft_settings) THEN 0
    ELSE IF tail_number \in aircraft_settings[k].tail_numbers THEN k
    ELSE FirstMatch(aircraft_settings, tail_number, k + 1)

\* None, or Some(section name).
acftByTail(config, tail_number) ==
    IF config.cli_aircraft THEN None
    ELSE LET k == FirstMatch(config.aircraft_settings, tail_number, 1)
         IN  IF k > 0 THEN Some(config.aircraft_settings[k].name)
             ELSE Some(config.aircraft)

\* The index of the section with the given name in a section list, or 0.
RECURSIVE SectionIndex(_, _, _)
SectionIndex(settings, name, k) ==
    IF k > Len(settings) THEN 0
    ELSE IF ~IsNone(name) /\ settings[k].name = name[1] THEN k
    ELSE SectionIndex(settings, name, k + 1)

to_dict(settings) ==
    [headingtrim |-> settings.heading_trim, pitchtrim |-> settings.pitch_trim,
     rolltrim |-> settings.roll_trim, rollfactor |-> settings.roll_factor,
     pitchfactor |-> settings.pitch_factor]

DefaultTailSettings ==
    [heading_trim |-> DEFAULT_HEADING_TRIM, pitch_trim |-> DEFAULT_PITCH_TRIM,
     roll_trim |-> DEFAULT_ROLL_TRIM, roll_factor |-> DEFAULT_ROLL_FACTOR,
     pitch_factor |-> DEFAULT_PITCH_FACTOR]

\* get_tail_settings(tail_number).to_dict()
get_tail_settings(config, tail_number) ==
    LET t == SectionIndex(config.tail_settings, Some(tail_number), 1)
        a == SectionIndex(config.aircraft_settings,
                          acftByTail(config, tail_number), 1)
    IN  IF t > 0 THEN to_dict(config.tail_settings[t])
        ELSE IF a > 0 THEN to_dict(config.aircraft_settings[a])
        ELSE to_dict(DefaultTailSettings)

\* sources[column_name] = expression on an insertion-ordered dictionary held
\* as a sequence of [name, expression].
\* A dictionary in which the first definition of a channel stays.
RECURSIVE KeepFirstSource(_, _, _)
KeepFirstSource(sources, name, expression) ==
    IF sources = << >> THEN << [name |-> name, expression |-> expression] >>
    ELSE IF Head(sources).name = name THEN sources
    ELSE << Head(sources) >> \o KeepFirstSource(Tail(sources), name, expression)

RECURSIVE PutSource(_, _, _)
PutSource(sources, name, expression) ==
    IF sources = << >> THEN << [name |-> name, expression |-> expression] >>
    ELSE IF Head(sources).name = name
         THEN << [name |-> name, expression |-> expression] >> \o Tail(sources)
    ELSE << Head(sources) >> \o PutSource(Tail(sources), name, expression)

RECURSIVE AddSources(_, _)
AddSources(sources, drefs) ==
    IF drefs = << >> THEN sources
    ELSE AddSources(PutSource(sources, get_column_name(Head(drefs)),
                              Head(drefs).expression),
                    Tail(drefs))

\* The sources dictionary of drefsByTail.
drefsByTail(config, tail_number) ==
    LET a == SectionIndex(config.aircraft_settings,
                          acftByTail(config, tail_number), 1)
        t == SectionIndex(config.tail_settings, Some(tail_number), 1)
        s0 == AddSources(<< >>, config.default_drefs)
        s1 == IF a > 0 THEN AddSources(s0, config.aircraft_settings[a].drefs)
              ELSE s0
    IN  IF t > 0 THEN AddSources(s1, config.tail_settings[t].drefs) ELSE s1

\* ------------------------------------------------------------------------
\* DREF evaluation: eval(value.format(**meta, **point, **track_data)).
\* The expressions of the model, by what format() and eval() do with them:
\* a known placeholder yields its value, '{Airspeed}' raises KeyError,
\* '{Speed} / 0' raises ZeroDivisionError, any other text raises.
\* ------------------------------------------------------------------------

EvalDref(expression, point, track_data) ==
    IF expression = "round({Speed}, 4)" THEN Ok(track_data.Speed)
    ELSE IF expression = "round({ALTMSL}, 4)"
         THEN Ok(RoundDiv(point.ALTMSL, InterpDenominator))
    ELSE IF expression = "{VerticalSpeed}" THEN Ok(track_data.VerticalSpeed)
    ELSE IF expression = "{Course}" THEN Ok(track_data.Course)
    ELSE IF expression = "{Speed}" THEN Ok(track_data.Speed)
    ELSE IF expression = "{Pitch}" THEN Ok(track_data.Pitch)
    ELSE IF expression = "{Bank}" THEN Ok(track_data.Bank)
    ELSE Raise

\* An evaluation loop that leaves a failed channel out of the point: the
\* behaviour C9 rules out.
SkipFailedDref(drefs, name, result) ==
    IF result.err THEN drefs
    ELSE [n \in (DOMAIN drefs) \cup {name} |->
             IF n = name THEN result.val ELSE drefs[n]]

\* drefs[name] = value, or 0 when the evaluation raised.
SetDref(drefs, name, result) ==
    [n \in (DOMAIN drefs) \cup {name} |->
        IF n = name THEN (IF result.err THEN 0 ELSE result.val) ELSE drefs[n]]

RECURSIVE EvalDrefs(_, _, _, _)
EvalDrefs(sources, point, track_data, drefs) ==
    IF sources = << >> THEN drefs
    ELSE EvalDrefs(Tail(sources), point, track_data,
                   SetDref(drefs, Head(sources).name,
                           EvalDref(Head(sources).expression, point, track_data)))

\* ------------------------------------------------------------------------
\* TrackBuilder.build_track_from_lines.  The loop state of the second pass
\* is the record [track_points, prev_point, prev_time, total_distance];
\* prev_point and prev_time are None or Some(value).  env is the record
\* [tail_config, dref_sources] of the flight's tail number.
\* ------------------------------------------------------------------------

NewTrack ==
    [track_points |-> << >>, prev_point |-> None, prev_time |-> None,
     total_distance |-> 0]

TrackData(point) ==
    [Timestamp |-> point.TIME, Latitude |-> point.LAT, Longitude |-> point.LONG,
     Altitude |-> point.ALTMSL, Course |-> 0, Pitch |-> 0, Bank |-> 0,
     Speed |-> 0, VerticalSpeed |-> 0]

\* track_data.update(derived_values)
UpdateTrackData(track_data, derived) ==
    [track_data EXCEPT !.Course = derived.Course, !.Pitch = derived.Pitch,
                       !.Bank = derived.Bank, !.Speed = derived.Speed,
                       !.VerticalSpeed = derived.VerticalSpeed]

\* calculateDistance(...) * 0.000621371, in 1e-6 mile.
DistMiles(prev, point) ==
    IF IsNone(prev) THEN 0
    ELSE RoundDiv(calculateDistance(prev[1].LAT, prev[1].LONG,
                                    point.LAT, point.LONG) * 621, 1000)

\* An append that also writes the new point's heading into the point
\* appended before it.
AppendAndRealign(st, point) ==
    [track_points |->
        Append(IF st.track_points = << >> THEN << >>
               ELSE [st.track_points EXCEPT
                        ![Len(st.track_points)].HEADING = point.HEADING],
               point),
     prev_point |-> Some(point),
     prev_time |-> Some(point.TIME),
     total_distance |-> st.total_distance + DistMiles(st.prev_point, point)]

\* track_points.append(point), the distance update and the prev update.
AppendFinal(st, point) ==
    [track_points |-> Append(st.track_points, point),
     prev_point |-> Some(point),
     prev_time |-> Some(point.TIME),
     total_distance |-> st.total_distance + DistMiles(st.prev_point, point)]

\* DREF evaluation on the smoothed point, then the append.
AppendSmoothed(st, point, track_data, env) ==
    AppendFinal(st, [point EXCEPT !.drefs =
                        EvalDrefs(env.dref_sources, point, track_data, @)])

\* Smoothing, DREF evaluation, append, distance and prev update: the tail of
\* the loop body, the same for a gap point and for a recorded point.
AppendPoint(st, point, track_data, env) ==
    AppendSmoothed(st, apply_smoothing(point, st.prev_point, env.tail_config),
                   track_data, env)

\* A gap point after its estimation r = [point, derived]: the heading is
\* overridden by the interpolated one.
AppendEstimatedGapPoint(st, r, gap_track_data, point, gap_time_diff, time_diff, env) ==
    AppendPoint(st,
                [r.point EXCEPT !.HEADING =
                    interpolate_heading(st.prev_point[1].HEADING, point.HEADING,
                                        gap_time_diff, time_diff)],
                UpdateTrackData(gap_track_data, r.derived), env)

GapTrackData(gap_point) ==
    [TrackData(gap_point) EXCEPT !.Course = gap_point.HEADING,
                                 !.Pitch = gap_point.PITCH,
                                 !.Bank = gap_point.ROLL]

\* One iteration of the loop over gap_points.  point is the recorded point
\* that ends the gap, time_diff the seconds from the gap's start to it.
ProcessGapPoint(st, gap_point, point, time_diff, env) ==
    IF gap_point.TIME - st.prev_time[1] > 0
    THEN AppendEstimatedGapPoint(st,
             calculate_derived_values(gap_point, st.prev_point[1],
                                      gap_point.TIME - st.prev_time[1]),
             GapTrackData(gap_point), point,
             gap_point.TIME - st.prev_time[1], time_diff, env)
    ELSE AppendPoint(st, gap_point, GapTrackData(gap_point), env)

RECURSIVE ProcessGapPoints(_, _, _, _, _)
ProcessGapPoints(st, gap_points, point, time_diff, env) ==
    IF gap_points = << >> THEN st
    ELSE ProcessGapPoints(
             ProcessGapPoint(st, Head(gap_points), point, time_diff, env),
             Tail(gap_points), point, time_diff, env)

\* A recorded point after its estimation r = [point, derived].
AppendEstimated(st, r, track_data, env) ==
    AppendPoint(st, r.point, UpdateTrackData(track_data, r.derived), env)

\* "Now process the current point normally": estimation against the
\* previous point when time has advanced, else the previous attitude.
ProcessNormally(st, point, track_data, env) ==
    IF point.TIME - st.prev_time[1] > 0
    THEN AppendEstimated(st,
             calculate_derived_values(point, st.prev_point[1],
                                      point.TIME - st.prev_time[1]),
             track_data, env)
    ELSE AppendPoint(st,
             [point EXCEPT !.HEADING = st.prev_point[1].HEADING,
                           !.PITCH = st.prev_point[1].PITCH,
                           !.ROLL = st.prev_point[1].ROLL],
             track_data, env)

\* The gap points f = [end_point, gap_points] are processed, then the
\* recorded point.
FillGap(st, f, time_diff, track_data, env) ==
    ProcessNormally(
        ProcessGapPoints(st, f.gap_points, f.end_point, time_diff, env),
        f.end_point, track_data, env)

\* The gap branch after the estimation r = [point, derived] of the point
\* that ends the gap.
ProcessAfterGap(st, r, time_diff, track_data, env) ==
    FillGap(st, fill_time_gap(st.prev_point[1], r.point, time_diff), time_diff,
            UpdateTrackData(track_data, r.derived), env)

\* The body of the loop over processed_points for a recorded point.  On
\* whole seconds time_diff > 1.5 is time_diff >= 2.
ProcessPoint(st, point, env) ==
    IF IsNone(st.prev_point) \/ IsNone(st.prev_time)
    THEN AppendPoint(st, point, TrackData(point), env)
    ELSE IF point.TIME - st.prev_time[1] >= 2
    THEN ProcessAfterGap(st,
             calculate_derived_values(point, st.prev_point[1],
                                      point.TIME - st.prev_time[1]),
             point.TIME - st.prev_time[1], TrackData(point), env)
    ELSE ProcessNormally(st, point, TrackData(point), env)

\* One iteration of the loop over sorted_times.
ProcessTimestampKey(st, points_at_time, env) ==
    ProcessPoint(st,
                 IF Len(points_at_time) = 1 THEN points_at_time[1]
                 ELSE select_best_duplicate_point(points_at_time, st.prev_point),
                 env)

\* The invocations of calculate_derived_values made by one iteration of
\* the loop, in order: each entry holds the time of the point estimated,
\* the prev_point handed over and the time difference.
Estimation(point, prev_point, time_diff) ==
    [TIME |-> point.TIME, prev_point |-> prev_point, time_diff |-> time_diff]

EstimationsNormally(st, point) ==
    IF point.TIME - st.prev_time[1] > 0
    THEN << Estimation(point, st.prev_point[1], point.TIME - st.prev_time[1]) >>
    ELSE << >>

RECURSIVE EstimationsOfGapPoints(_, _, _, _, _)
EstimationsOfGapPoints(st, gap_points, point, time_diff, env) ==
    IF gap_points = << >> THEN << >>
    ELSE EstimationsNormally(st, Head(gap_points))
         \o EstimationsOfGapPoints(
                ProcessGapPoint(st, Head(gap_points), point, time_diff, env),
                Tail(gap_points), point, time_diff, env)

EstimationsOfGap(st, f, time_diff, env) ==
    EstimationsOfGapPoints(st, f.gap_points, f.end_point, time_diff, env)
    \o EstimationsNormally(
           ProcessGapPoints(st, f.gap_points, f.end_point, time_diff, env),
           f.end_point)

EstimationsAfterGap(st, r, time_diff, env) ==
    EstimationsOfGap(st, fill_time_gap(st.prev_point[1], r.point, time_diff),
                     time_diff, env)

EstimationsOfPoint(st, point, env) ==
    IF IsNone(st.prev_point) \/ IsNone(st.prev_time) THEN << >>
    ELSE IF point.TIME - st.prev_time[1] >= 2
    THEN << Estimation(point, st.prev_point[1], point.TIME - st.prev_time[1]) >>
         \o EstimationsAfterGap(st,
                calculate_derived_values(point, st.prev_point[1],
                                         point.TIME - st.prev_time[1]),
                point.TIME - st.prev_time[1], env)
    ELSE EstimationsNormally(st, point)

EstimationsOfKey(st, points_at_time, env) ==
    EstimationsOfPoint(st,
                       IF Len(points_at_time) = 1 THEN points_at_time[1]
                       ELSE select_best_duplicate_point(points_at_time,
                                                        st.prev_point),
                       env)

\* The guard of the first pass: empty, short and non-B lines are skipped.
IsPositionLine(line) ==
    line.len > 0 /\ line.len >= MIN_B_RECORD_LENGTH /\ line.type = "B"

\* points_by_second[key].append(point), the list created when missing.
PutPoint(points_by_second, key, point) ==
    [k \in (DOMAIN points_by_second) \cup {key} |->
        IF k # key THEN points_by_second[k]
        ELSE IF key \in DOMAIN points_by_second
             THEN Append(points_by_second[key], point)
             ELSE << point >>]

\* A first pass that gives up on a parse error, losing the groups collected
\* so far: the behaviour C2 rules out.
AbortOnParseError(points_by_second, r) ==
    IF r.err THEN << >>
    ELSE PutPoint(points_by_second, TimestampKey(r.val.TIME), r.val)

\* A first pass that follows the file order: a record earlier than one
\* already collected is dropped, so the track depends on the line order,
\* which C29 rules out.
KeepAdvancing(points_by_second, r) ==
    IF r.err THEN points_by_second
    ELSE IF \E k \in DOMAIN points_by_second : k > TimestampKey(r.val.TIME)
    THEN points_by_second
    ELSE PutPoint(points_by_second, TimestampKey(r.val.TIME), r.val)

\* The try block of the first pass on a parse result r.
AddParsed(points_by_second, r) ==
    IF r.err THEN points_by_second
    ELSE PutPoint(points_by_second, TimestampKey(r.val.TIME), r.val)

\* One iteration of the first pass.  points_by_second is a function from
\* the timestamp keys seen so far to the list of points under the key; a
\* record that raises ValueError is skipped.
GroupLine(points_by_second, line, flight_date, timezone_offset, todayOrd) ==
    IF ~IsPositionLine(line) THEN points_by_second
    ELSE AddParsed(points_by_second,
                   ParsePositionRecord(line, flight_date, timezone_offset,
                                       todayOrd))

\* sorted(points_by_second.keys()): the keys are fixed-width HHMMSS digit
\* strings, whose lexicographic order is the order of the times of day.
RECURSIVE SortedKeys(_)
SortedKeys(keys) ==
    IF keys = {} THEN << >>
    ELSE LET least == CHOOSE k \in keys : \A other \in keys : k <= other
         IN  << least >> \o SortedKeys(keys \ {least})

\* tail_number = flight_meta.TailNumber or DEFAULT_UNKNOWN_TEXT
TailNumberOf(meta) ==
    IF meta.TailNumber # NoText THEN meta.TailNumber ELSE DEFAULT_UNKNOWN_TEXT

\* A builder that reads the tail configuration and the channels of the
\* default tail whatever the flight's tail number: the behaviour C11 rules
\* out.
UnknownTailEnv(config, tail_number) ==
    [tail_config |-> get_tail_settings(config, DEFAULT_UNKNOWN_TEXT),
     dref_sources |-> drefsByTail(config, DEFAULT_UNKNOWN_TEXT)]

\* What the loop body reads from the configuration for the flight's tail.
TailEnv(config, tail_number) ==
    [tail_config |-> get_tail_settings(config, tail_number),
     dref_sources |-> drefsByTail(config, tail_number)]

\* The whole of build_track_from_lines as a function of its arguments.
RECURSIVE GroupLines(_, _, _, _, _)
GroupLines(points_by_second, lines, flight_date, timezone_offset, todayOrd) ==
    IF lines = << >> THEN points_by_second
    ELSE GroupLines(GroupLine(points_by_second, Head(lines), flight_date,
                              timezone_offset, todayOrd),
                    Tail(lines), flight_date, timezone_offset, todayOrd)

RECURSIVE ProcessKeys(_, _, _, _)
ProcessKeys(st, points_by_second, keys, env) ==
    IF keys = << >> THEN st
    ELSE ProcessKeys(ProcessTimestampKey(st, points_by_second[Head(keys)], env),
                     points_by_second, Tail(keys), env)

build_track_from_lines(lines, flight_meta, flight_date, timezone_offset, todayOrd, config) ==
    LET grouped == GroupLines(<< >>, lines, flight_date, timezone_offset, todayOrd)
    IN  ProcessKeys(NewTrack, grouped, SortedKeys(DOMAIN grouped),
                    TailEnv(config, TailNumberOf(flight_meta)))

\* ------------------------------------------------------------------------
\* FdrWriter: the track section of the output file.  A row is the sequence
\* of the seven standard fields followed by the value of every channel of
\* dref_sources; point.drefs[dref] raises KeyError on a missing channel.
\* ------------------------------------------------------------------------

HasChannels(point, dref_sources) ==
    \A n \in 1..Len(dref_sources) : dref_sources[n].name \in DOMAIN point.drefs

TrackRow(point, dref_sources) ==
    << point.TIME, point.LONG, point.LAT, point.ALTMSL, point.HEADING,
       point.PITCH, point.ROLL >>
    \o [n \in 1..Len(dref_sources) |-> point.drefs[dref_sources[n].name]]

write_track_points(track_points, dref_sources) ==
    IF \E k \in 1..Len(track_points) : ~HasChannels(track_points[k], dref_sources)
    THEN Raise
    ELSE Ok([k \in 1..Len(track_points) |-> TrackRow(track_points[k], dref_sources)])

\* write_file: the TAIL and DATE lines of the header, the column names and
\* the track rows.
write_file(config, fdr_flight) ==
    LET rows == write_track_points(fdr_flight.track,
                                   drefsByTail(config, fdr_flight.TAIL))
    IN  IF rows.err THEN Raise
        ELSE Ok([TAIL |-> fdr_flight.TAIL, DATE |-> fdr_flight.DATE,
                 columns |-> [n \in 1..Len(drefsByTail(config, fdr_flight.TAIL)) |->
                                 drefsByTail(config, fdr_flight.TAIL)[n].name],
                 rows |-> rows.val])

\* ------------------------------------------------------------------------
\* igc2fdr.py: process_file on one input file.  A file is the record
\* [name, exists, readable, out_writable, lines]: its base name, whether
\* open(file_path) finds it and may read it, whether open(out_file_path,
\* 'w') succeeds, and its lines.
\* ------------------------------------------------------------------------

\* The first line of an XML file and the root elements of KML and GPX.
XmlLine(value) == [BlankLine EXCEPT !.type = "<", !.len = 5, !.value = value]

\* IgcFileDetector.detect_filetype.
getFiletype(lines) ==
    IF Len(lines) >= 2 /\ lines[1].type = "A" /\ lines[2].type = "H" THEN "IGC"
    ELSE IF ~(Len(lines) >= 1 /\ lines[1] = XmlLine("?xml")) THEN "CSV"
    ELSE IF Len(lines) >= 2 /\ lines[2] = XmlLine("kml") THEN "KML"
    ELSE IF Len(lines) >= 2 /\ lines[2] = XmlLine("gpx") THEN "GPX"
    ELSE "UNKNOWN"

\* One iteration of the header loop of parse_file on a line that is not a
\* B record.
HeaderStep(line, h, todayOrd) ==
    IF line.len > 0 /\ line.type = "H"
    THEN ParseHeaderLine(line, h.meta, h.date, todayOrd)
    ELSE h

\* The header loop of parse_file: it stops at the first B record.
RECURSIVE ParseHeaders(_, _, _)
ParseHeaders(lines, h, todayOrd) ==
    IF lines = << >> THEN h
    ELSE IF Head(lines).len > 0 /\ Head(lines).type = "B" THEN h
    ELSE ParseHeaders(Tail(lines), HeaderStep(Head(lines), h, todayOrd), todayOrd)

\* self.config.timezoneIGC if it is not None, else self.config.timezone.
FlightTimezone(config) ==
    IF ~IsNone(config.timezoneIGC) THEN config.timezoneIGC[1] ELSE config.timezone

FlightFrom(lines, config, todayOrd, h) ==
    [TAIL |-> TailNumberOf(h.meta),
     DATE |-> IF ~IsNone(h.date) THEN h.date[1] ELSE todayOrd,
     timezone |-> FlightTimezone(config),
     track |-> build_track_from_lines(lines, h.meta, h.date,
                                      FlightTimezone(config), todayOrd,
                                      config).track_points]

\* IgcParser.parse_file as a function of the file's lines.
parse_file(lines, config, todayOrd) ==
    FlightFrom(lines, config, todayOrd,
               ParseHeaders(lines, [meta |-> [Pilot |-> NoText, TailNumber |-> NoText,
                                              StartTime |-> None, EndTime |-> None,
                                              TotalDuration |-> None,
                                              TotalDistance |-> None],
                                    date |-> None],
                            todayOrd))

\* A conversion that reports success without writing the output file: the
\* behaviour C13 rules out.
ReportWithoutWriting(file, out) == [ok |-> ~out.err, out |-> None]

\* with open(out_file_path, 'w'): writeOutputFile(config, fdr_file, flight)
WriteOutput(file, out) ==
    IF out.err THEN [ok |-> FALSE, out |-> None]
    ELSE [ok |-> TRUE, out |-> Some([path |-> file.name, content |-> out.val])]

\* process_file: [ok |-> the returned value, out |-> None or Some(the
\* output file written)].  Every exception is caught and gives False.
process_file(config, file, todayOrd) ==
    IF ~file.exists \/ ~file.readable THEN [ok |-> FALSE, out |-> None]
    ELSE IF getFiletype(file.lines) # "IGC" THEN [ok |-> FALSE, out |-> None]
    ELSE IF ~file.out_writable THEN [ok |-> FALSE, out |-> None]
    ELSE WriteOutput(file, write_file(config, parse_file(file.lines, config, todayOrd)))

\* ------------------------------------------------------------------------
\* Inputs of the model: the lines of the IGC file, the configuration file
\* and the command line.
\* ------------------------------------------------------------------------

\* The longest file of the model, in lines.
MaxLines == 3

\* datetime.now().date() of the run.
TodayOrdinal == DateOrdinal(2026, 1, 15)

\* A well-formed 35-character B record with fix validity 'A'.
BRec(hh, mi, ss, latFrac, lonFrac, alt) ==
    BLine(MIN_B_RECORD_LENGTH, hh, mi, ss, latFrac, "N", lonFrac, "E", 24, alt, alt)

\* A B record whose hour columns are not digits: int() raises ValueError.
BadBRec ==
    [BRec(23, 0, 1, 1, 1, 5) EXCEPT !.hh = NotInt]

\* A B record cut short of its altitude columns.
ShortBRec ==
    [BRec(23, 0, 1, 1, 1, 5) EXCEPT !.len = 20]

NoConfigFile ==
    [timezone |-> None, timezoneigc |-> None, aircraft |-> None,
     drefs |-> << >>, sections |-> << >>]

NoCli == [timezone |-> None, aircraft |-> None]

Section(name, aircraft, tails, values, drefs) ==
    [name |-> name, aircraft |-> aircraft, tails |-> tails, values |-> values,
     drefs |-> drefs]

\* All sequences over S of length 1..n.
RECURSIVE SeqsUpTo(_, _)
SeqsUpTo(S, n) ==
    IF n = 0 THEN {}
    ELSE LET shorter == SeqsUpTo(S, n - 1)
         IN  {<<x>> : x \in S} \cup shorter
             \cup {Append(q, x) : q \in {r \in shorter : Len(r) = n - 1}, x \in S}

\* The files that start with the lines of `first` and go on with up to
\* MaxLines lines of lineSet, under each configuration file and command line.
Scenario(first, lineSet, files, clis) ==
    {[lines |-> first \o l, file |-> f, cli |-> c] :
        l \in SeqsUpTo(lineSet, MaxLines), f \in files, c \in clis}

\* Date headers: 'HFDTE230525' (11 characters), 'HFDTEDATE:230525,01' (the
\* long form, whose columns 5..10 are not digits), 'HFDTE230525XX' and
\* 'HFDTE310225XX' (no such day).
DateHeader11 == HLine("FDTE", 11, <<23>>, <<5>>, <<25>>, "")

DateHeaderLong == HLine("FDTE", 19, NotInt, NotInt, NotInt, "")

DateHeader13 == HLine("FDTE", 13, <<23>>, <<5>>, <<25>>, "")

DateHeaderNoSuchDay == HLine("FDTE", 13, <<31>>, <<2>>, <<25>>, "")

\* Flights around 23:00 UTC, with gaps of 1, 2, 3, 10, 12 and 13 seconds,
\* damaged records among the good ones, with and without a one-hour
\* timezone on the command line.
TimingLines ==
    {BRec(22, 59, 59, 0, 0, 0), BRec(23, 0, 0, 1, 0, 1), BRec(23, 0, 2, 2, 2, 3),
     BRec(23, 0, 12, 4, 1, 2), BadBRec, ShortBRec}

TimingScenarios ==
    Scenario(<< DateHeader13 >>, TimingLines, {NoConfigFile},
             {NoCli, [timezone |-> Some(TzHours(1)), aircraft |-> None]})

\* Several samples in one second, at different distances from the sample
\* of the second before; two of them are equally far from it.
DuplicateLines ==
    {BRec(12, 0, 0, 0, 0, 0), BRec(12, 0, 0, 3, 0, 4), BRec(12, 0, 1, 2, 0, 1),
     BRec(12, 0, 1, 0, 2, 2), BRec(12, 0, 1, 1, 0, 3)}

DuplicateScenarios == Scenario(<< DateHeader13 >>, DuplicateLines, {NoConfigFile}, {NoCli})

\* 'HFGIDGLIDERID:D-1234': the registration of the glider.
GliderIdHeader == HLine("FGID", 20, NotInt, NotInt, NotInt, "D-1234")

\* A steep climb and a turn, flown with the attitude settings of a tail
\* section or of an aircraft section listing the tail.
AttitudeLines ==
    {GliderIdHeader, BRec(12, 0, 0, 0, 0, 0), BRec(12, 0, 1, 1, 0, 20),
     BRec(12, 0, 2, 1, 1, 0)}

TailSectionFile(values) ==
    [NoConfigFile EXCEPT !.sections =
        << Section("D-1234", FALSE, {}, values, << >>) >>]

AircraftSectionFile(values) ==
    [NoConfigFile EXCEPT !.sections =
        << Section("Aircraft/Schleicher/ASK21", TRUE, {"D-1234"}, values, << >>) >>]

AttitudeFiles ==
    {NoConfigFile,
     \* headingtrim = -0.0004
     TailSectionFile([NoValues EXCEPT !.headingtrim = Some(-4)]),
     \* pitchfactor = 4.0
     TailSectionFile([NoValues EXCEPT !.pitchfactor = Some(40)]),
     \* headingtrim = 90, pitchtrim = -180, rolltrim = 5
     AircraftSectionFile([NoValues EXCEPT !.headingtrim = Some(900000),
                                          !.pitchtrim = Some(-1800000),
                                          !.rolltrim = Some(50000)])}

AttitudeScenarios == Scenario(<< DateHeader13 >>, AttitudeLines, AttitudeFiles, {NoCli})

HeaderLines ==
    {DateHeader11, DateHeaderLong, DateHeader13, DateHeaderNoSuchDay,
     BRec(12, 0, 0, 0, 0, 0), BRec(12, 0, 1, 1, 0, 1)}

HeaderScenarios == Scenario(<< >>, HeaderLines, {NoConfigFile}, {NoCli})

\* DREF definitions: good ones around a failing one, a ground-speed channel
\* under another synonym, a failing override of GndSpd in the tail section,
\* and an unnamed channel on the ground-speed instrument.
AltimeterDref ==
    DrefDefinition(<< "sim", "cockpit2", "gauges", "indicators", "altitude_ft_pilot" >>,
                   "round({ALTMSL}, 4)", "Altimeter")

BrokenDref == DrefDefinition(<< "sim", "test", "broken" >>, "{Speed} / 0", "Broken")

VviDref ==
    DrefDefinition(<< "sim", "cockpit2", "gauges", "indicators", "vvi_fpm_pilot" >>,
                   "{VerticalSpeed}", NoText)

\* One channel for each kinematic value of track_data.
KinematicsFile ==
    [NoConfigFile EXCEPT !.drefs =
        << DrefDefinition(<< "sim", "test", "speed" >>, "{Speed}", "speed"),
           DrefDefinition(<< "sim", "test", "course" >>, "{Course}", "course"),
           DrefDefinition(<< "sim", "test", "vspeed" >>, "{VerticalSpeed}", "vspeed"),
           DrefDefinition(<< "sim", "test", "pitch" >>, "{Pitch}", "pitch"),
           DrefDefinition(<< "sim", "test", "bank" >>, "{Bank}", "bank") >>]

DrefFiles ==
    {NoConfigFile,
     [NoConfigFile EXCEPT !.drefs = << AltimeterDref, BrokenDref, VviDref >>],
     [NoConfigFile EXCEPT !.drefs =
         << DrefDefinition(DEFAULT_DREF_GROUND_SPEED, "round({Speed}, 4)",
                           "GroundSpeed") >>],
     [NoConfigFile EXCEPT !.sections =
         << Section("D-1234", FALSE, {}, NoValues,
                    << DrefDefinition(DEFAULT_DREF_GROUND_SPEED, "{Airspeed}",
                                      "GndSpd"), AltimeterDref >>) >>],
     [NoConfigFile EXCEPT !.drefs =
         << DrefDefinition(DEFAULT_DREF_GROUND_SPEED, "{Course}", NoText) >>],
     KinematicsFile}

DrefLines ==
    {GliderIdHeader, BRec(12, 0, 0, 0, 0, 3), BRec(12, 0, 1, 1, 0, 5),
     BRec(12, 0, 3, 2, 1, 4)}

DrefScenarios == Scenario(<< DateHeader13 >>, DrefLines, DrefFiles, {NoCli})

\* A glider standing still, one sample per second, flown with the default
\* attitude settings and with trims in the tail section.
LevelSamples == 6

LevelFlight(n) ==
    << DateHeader13, GliderIdHeader >> \o [i \in 1..n |-> BRec(12, 0, i - 1, 0, 0, 5)]

LevelFiles ==
    {NoConfigFile,
     \* headingtrim = 10
     TailSectionFile([NoValues EXCEPT !.headingtrim = Some(100000)]),
     \* headingtrim = 90, pitchtrim = 5, rolltrim = 3
     TailSectionFile([NoValues EXCEPT !.headingtrim = Some(900000),
                                      !.pitchtrim = Some(50000),
                                      !.rolltrim = Some(30000)])}

LevelScenarios ==
    {[lines |-> LevelFlight(n), file |-> f, cli |-> NoCli] :
        n \in 1..LevelSamples, f \in LevelFiles}

\* Timezones on the command line ('1', '0', '-0:30') and in the Defaults
\* section of the configuration file (Timezone = 2, TimezoneIGC = -5:30 or 0).
TimezoneFiles ==
    {[NoConfigFile EXCEPT !.timezone = tz, !.timezoneigc = igc] :
        tz \in {None, Some(TzHours(2))},
        igc \in {None, Some(TzClock(TRUE, << 5, 30 >>)), Some(TzHours(0))}}

TimezoneClis ==
    {[NoCli EXCEPT !.timezone = tz] :
        tz \in {None, Some(TzHours(1)), Some(TzHours(0)),
                Some(TzClock(TRUE, << 0, 30 >>))}}

TimezoneScenarios ==
    {[lines |-> l, file |-> f, cli |-> c] :
        l \in {<< DateHeader13, BRec(12, 0, 0, 0, 0, 0), BRec(12, 0, 1, 1, 0, 1) >>,
               << BRec(6, 30, 0, 2, 0, 1), BadBRec >>},
        f \in TimezoneFiles, c \in TimezoneClis}

\* B records with pressure altitude 10 m and GPS altitude 20 m: with the
\* 'A' marker in column 24 and without it (fix validity 'V', the fixed
\* columns 25..29 and 30..34 are read), 35 and 36 characters long, and with
\* altitude columns that are not digits.
AltRec(len, ss, apos, altP, altG) ==
    [BLine(len, 12, 0, ss, ss, "N", 0, "E", apos, 10, 20) EXCEPT
        !.altP = altP, !.altG = altG]

AltitudeLines ==
    {AltRec(35, 0, 24, << 10 >>, << 20 >>), AltRec(35, 1, 0, << 10 >>, << 20 >>),
     AltRec(36, 2, 0, << 10 >>, << 20 >>), AltRec(36, 3, 0, NotInt, << 20 >>),
     AltRec(35, 4, 24, NotInt, << 20 >>), AltRec(35, 5, 24, << 10 >>, NotInt),
     AltRec(36, 6, 0, << 10 >>, NotInt)}

AltitudeScenarios ==
    {[lines |-> << DateHeader13, a, b >>, file |-> NoConfigFile, cli |-> NoCli] :
        a \in AltitudeLines, b \in AltitudeLines}

\* The channel Altimeter defined in the Defaults section, in the aircraft
\* section that lists D-1234 and in the tail section [D-1234], each time
\* with another expression.
ShadowDrefs ==
    {<< >>,
     << DrefDefinition(<< "sim", "test", "alt" >>, "{VerticalSpeed}", "Altimeter") >>,
     << DrefDefinition(<< "sim", "test", "alt" >>, "{Course}", "Altimeter"), VviDref >>,
     << AltimeterDref >>}

ShadowFiles ==
    {[NoConfigFile EXCEPT
         !.drefs = d,
         !.sections = << Section("Aircraft/Schleicher/ASK21", TRUE, {"D-1234"},
                                 NoValues, a),
                         Section("D-1234", FALSE, {}, NoValues, t) >>] :
        d \in ShadowDrefs, a \in ShadowDrefs, t \in ShadowDrefs}

ShadowScenarios ==
    {[lines |-> << DateHeader13, GliderIdHeader, BRec(12, 0, 0, 0, 0, 3),
                   BRec(12, 0, 1, 1, 1, 5) >>,
      file |-> f, cli |-> NoCli] : f \in ShadowFiles}

Scenarios ==
    TimingScenarios \cup DuplicateScenarios \cup AttitudeScenarios
    \cup HeaderScenarios \cup DrefScenarios \cup LevelScenarios
    \cup TimezoneScenarios \cup AltitudeScenarios \cup ShadowScenarios

\* ------------------------------------------------------------------------
\* The program as a state machine: Config(cli_args), then
\* IgcParser.parse_file, one loop iteration per step.
\* ------------------------------------------------------------------------

VARIABLES
    lines,              \* track_file.readlines(), stripped
    config_file,        \* the configuration file
    cli_args,           \* the command line
    pc,                 \* "config", "headers", "group", "track", "finish", "done"
    config,             \* the loaded Config
    idx,                \* the position of the running loop
    flight_meta,        \* FlightMeta
    flight_date,        \* None or Some(date)
    fdr_flight,         \* FdrFlight: [TAIL, DATE, timezone, track]
    points_by_second,   \* the groups of the first pass
    sorted_times,       \* the sorted keys of the second pass
    builder,            \* [track_points, prev_point, prev_time, total_distance]
    estimations         \* the calls of calculate_derived_values so far

\* process_files, one file per step (the variables rest while a single
\* parse_file is followed step by step).
VARIABLES
    file_paths,         \* the files named on the command line
    main_pc,            \* "idle", "start", "loop", "done"
    file_index,         \* the position of the loop over file_paths
    success_count,
    failure_count,
    returned,           \* what process_file returned, call by call
    written             \* the output files written, in order

\* A single call of a function of the program.
VARIABLES
    call,               \* [fn, ...]: the function and its arguments
    result              \* None before the call, Some(value) after it

parse_vars ==
    << lines, config_file, cli_args, pc, config, idx, flight_meta, flight_date,
       fdr_flight, points_by_second, sorted_times, builder, estimations >>

batch_vars ==
    << file_paths, main_pc, file_index, success_count, failure_count, returned,
       written >>

call_vars == << call, result >>

vars == << parse_vars, batch_vars, call_vars >>

\* No batch is running.
BatchIdle ==
    /\ file_paths = << >>
    /\ main_pc = "idle"
    /\ file_index = 1
    /\ success_count = 0
    /\ failure_count = 0
    /\ returned = << >>
    /\ written = << >>

\* No single function is being called.
CallIdle ==
    /\ call = [fn |-> "none"]
    /\ result = None

NewFlightMeta ==
    [Pilot |-> NoText, TailNumber |-> NoText, StartTime |-> None,
     EndTime |-> None, TotalDuration |-> None, TotalDistance |-> None]

NewFdrFlight ==
    [TAIL |-> NoText, DATE |-> TodayOrdinal, timezone |-> DEFAULT_TIMEZONE,
     track |-> << >>]

Init ==
    /\ \E sc \in Scenarios :
          /\ lines = sc.lines
          /\ config_file = sc.file
          /\ cli_args = sc.cli
    /\ pc = "config"
    /\ config = load_config(NoConfigFile, NoCli)
    /\ idx = 1
    /\ flight_meta = NewFlightMeta
    /\ flight_date = None
    /\ fdr_flight = NewFdrFlight
    /\ points_by_second = << >>
    /\ sorted_times = << >>
    /\ builder = NewTrack
    /\ estimations = << >>
    /\ BatchIdle
    /\ CallIdle

\* Config(cli_args), and the start of parse_file: the FDR timezone.
LoadConfig ==
    /\ pc = "config"
    /\ config' = load_config(config_file, cli_args)
    /\ fdr_flight' = [fdr_flight EXCEPT !.timezone =
                         IF ~IsNone(config'.timezoneIGC)
                         THEN config'.timezoneIGC[1] ELSE config'.timezone]
    /\ pc' = "headers"
    /\ UNCHANGED << lines, config_file, cli_args, idx, flight_meta, flight_date,
                    points_by_second, sorted_times, builder >>
    /\ UNCHANGED << batch_vars, call_vars, estimations >>

\* One iteration of the header loop; the loop ends at the first B record or
\* at the end of the file, and the flight's TAIL and DATE are set.
ParseHeader ==
    /\ pc = "headers"
    /\ IF idx > Len(lines) \/ (lines[idx].len > 0 /\ lines[idx].type = "B")
       THEN /\ fdr_flight' = [fdr_flight EXCEPT
                                 !.TAIL = TailNumberOf(flight_meta),
                                 !.DATE = IF ~IsNone(flight_date)
                                          THEN flight_date[1] ELSE @]
            /\ pc' = "group"
            /\ idx' = 1
            /\ UNCHANGED << flight_meta, flight_date >>
       ELSE /\ LET r == IF lines[idx].len > 0 /\ lines[idx].type = "H"
                        THEN ParseHeaderLine(lines[idx], flight_meta,
                                             flight_date, TodayOrdinal)
                        ELSE [meta |-> flight_meta, date |-> flight_date]
               IN  /\ flight_meta' = r.meta
                   /\ flight_date' = r.date
            /\ idx' = idx + 1
            /\ UNCHANGED << fdr_flight, pc >>
    /\ UNCHANGED << lines, config_file, cli_args, config, points_by_second,
                    sorted_times, builder >>
    /\ UNCHANGED << batch_vars, call_vars, estimations >>

\* One iteration of the first pass of build_track_from_lines; after the
\* last line the keys are sorted.
GroupRecord ==
    /\ pc = "group"
    /\ IF idx > Len(lines)
       THEN /\ sorted_times' = SortedKeys(DOMAIN points_by_second)
            /\ pc' = "track"
            /\ idx' = 1
            /\ UNCHANGED points_by_second
       ELSE /\ points_by_second' = GroupLine(points_by_second, lines[idx],
                                             flight_date, fdr_flight.timezone,
                                             TodayOrdinal)
            /\ idx' = idx + 1
            /\ UNCHANGED << sorted_times, pc >>
    /\ UNCHANGED << lines, config_file, cli_args, config, flight_meta,
                    flight_date, fdr_flight, builder >>
    /\ UNCHANGED << batch_vars, call_vars, estimations >>

\* One iteration of the second pass: duplicate resolution, gap filling,
\* estimation, smoothing, DREF evaluation and append for one timestamp key.
ProcessTimestamp ==
    /\ pc = "track"
    /\ idx <= Len(sorted_times)
    /\ builder' = ProcessTimestampKey(builder, points_by_second[sorted_times[idx]],
                                      TailEnv(config, TailNumberOf(flight_meta)))
    /\ estimations' = estimations
          \o EstimationsOfKey(builder, points_by_second[sorted_times[idx]],
                              TailEnv(config, TailNumberOf(flight_meta)))
    /\ idx' = idx + 1
    /\ UNCHANGED << lines, config_file, cli_args, pc, config, flight_meta,
                    flight_date, fdr_flight, points_by_second, sorted_times >>
    /\ UNCHANGED << batch_vars, call_vars >>

\* The end of parse_file: the track and the flight metadata.
Finish ==
    /\ pc = "track"
    /\ idx > Len(sorted_times)
    /\ fdr_flight' = [fdr_flight EXCEPT !.track = builder.track_points]
    /\ flight_meta' =
          IF builder.track_points = << >> THEN flight_meta
          ELSE LET first == builder.track_points[1]
                   last == builder.track_points[Len(builder.track_points)]
               IN  [flight_meta EXCEPT
                       !.StartTime = Some(first.TIME),
                       !.EndTime = Some(last.TIME),
                       !.TotalDuration = Some(last.TIME - first.TIME),
                       !.TotalDistance = Some(builder.total_distance)]
    /\ pc' = "done"
    /\ UNCHANGED << lines, config_file, cli_args, config, idx, flight_date,
                    points_by_second, sorted_times, builder >>
    /\ UNCHANGED << batch_vars, call_vars, estimations >>

Next == LoadConfig \/ ParseHeader \/ GroupRecord \/ ProcessTimestamp \/ Finish

Spec == Init /\ [][Next]_vars

\* ------------------------------------------------------------------------
\* process_files as a state machine, one file per step.
\* ------------------------------------------------------------------------

\* The longest list of input files.
MaxFiles == 3

ARecord == OtherLine("A", 7)

InputFile(name, readable, text) ==
    [name |-> name, exists |-> TRUE, readable |-> readable, out_writable |-> TRUE,
     lines |-> text]

\* The input files: a missing one, one that open() may not read, a CSV
\* file, a KML file, an A record followed by no header, IGC files with no
\* B record and with damaged B records only, IGC flights (two of them with
\* the same base name), and a flight whose output file cannot be opened.
InputFiles ==
    {[InputFile("missing", TRUE, << >>) EXCEPT !.exists = FALSE],
     InputFile("locked", FALSE, << ARecord, DateHeader13, BRec(12, 0, 0, 0, 0, 0) >>),
     InputFile("table", TRUE, << OtherLine("t", 10), OtherLine("1", 10) >>),
     InputFile("route", TRUE, << XmlLine("?xml"), XmlLine("kml") >>),
     InputFile("headless", TRUE, << ARecord, BRec(12, 0, 0, 0, 0, 0) >>),
     InputFile("ground", TRUE, << ARecord, DateHeader13, GliderIdHeader >>),
     InputFile("damaged", TRUE, << ARecord, DateHeader13, BadBRec, ShortBRec >>),
     InputFile("flight", TRUE,
               << ARecord, DateHeader13, BRec(12, 0, 0, 0, 0, 0),
                  BRec(12, 0, 2, 2, 1, 3) >>),
     InputFile("flight", TRUE, << ARecord, DateHeader13, BRec(12, 0, 1, 1, 0, 1) >>),
     [InputFile("readonly", TRUE, << ARecord, DateHeader13, BRec(12, 0, 0, 0, 0, 0) >>)
        EXCEPT !.out_writable = FALSE]}

\* No parse_file is being followed step by step; the configuration is the
\* one of a run with no configuration file and no option.
ParseIdle ==
    /\ lines = << >>
    /\ config_file = NoConfigFile
    /\ cli_args = NoCli
    /\ pc = "idle"
    /\ config = load_config(NoConfigFile, NoCli)
    /\ idx = 1
    /\ flight_meta = NewFlightMeta
    /\ flight_date = None
    /\ fdr_flight = NewFdrFlight
    /\ points_by_second = << >>
    /\ sorted_times = << >>
    /\ builder = NewTrack
    /\ estimations = << >>

BatchInit ==
    /\ ParseIdle
    /\ CallIdle
    /\ file_paths \in {<< >>} \cup SeqsUpTo(InputFiles, MaxFiles)
    /\ main_pc = "start"
    /\ file_index = 1
    /\ success_count = 0
    /\ failure_count = 0
    /\ returned = << >>
    /\ written = << >>

\* The start of process_files: an empty list returns at once.
StartBatch ==
    /\ main_pc = "start"
    /\ main_pc' = IF file_paths = << >> THEN "done" ELSE "loop"
    /\ success_count' = 0
    /\ failure_count' = 0
    /\ UNCHANGED << file_paths, file_index, returned, written, parse_vars, call_vars >>

\* One iteration of the loop of process_files.
ProcessNextFile ==
    /\ main_pc = "loop"
    /\ file_index <= Len(file_paths)
    /\ \E r \in {process_file(config, file_paths[file_index], TodayOrdinal)} :
          /\ success_count' = IF r.ok THEN success_count + 1 ELSE success_count
          /\ failure_count' = IF r.ok THEN failure_count ELSE failure_count + 1
          /\ returned' = Append(returned, r.ok)
          /\ written' = IF IsNone(r.out) THEN written ELSE Append(written, r.out[1])
    /\ file_index' = file_index + 1
    /\ UNCHANGED << file_paths, main_pc, parse_vars, call_vars >>

\* The end of the loop: the summary line.
ReportSummary ==
    /\ main_pc = "loop"
    /\ file_index > Len(file_paths)
    /\ main_pc' = "done"
    /\ UNCHANGED << file_paths, file_index, success_count, failure_count, returned,
                    written, parse_vars, call_vars >>

BatchNext == StartBatch \/ ProcessNextFile \/ ReportSummary

BatchSpec == BatchInit /\ [][BatchNext]_vars

\* ------------------------------------------------------------------------
\* Single calls of the functions of the program: the arguments are drawn
\* at the start, the call is one step.
\* ------------------------------------------------------------------------

\* k tenths of a thousandth of an arc-minute (0.185 m of latitude), as a
\* coordinate.
TenthOfThousandth(k) == k * 16667 * (InterpDenominator \div 10)

HeadingOffsets == {-10, -5, -3, 0, 3, 5, 6, 10, 20}

\* calculateHeading between points some decimetres to some metres apart,
\* with and without a fallback heading.
HeadingCalls ==
    {[fn |-> "calculateHeading", lat1 |-> TenthOfThousandth(a), lon1 |-> 0,
      lat2 |-> TenthOfThousandth(b), lon2 |-> TenthOfThousandth(c), fallback |-> f] :
        a \in {0, 3}, b \in HeadingOffsets, c \in HeadingOffsets,
        f \in {None, Some(0), Some(1234000), Some(DEGREES_IN_CIRCLE)}}

\* Headings on both sides of the 0/360 boundary, in 1e-4 degree.
BoundaryHeadings ==
    {0, 100000, 900000, 1700000, 1800000, 1900000, 3500000, 3600000}

\* The interpolation factors num/den of a gap of den seconds.
Factors == {<<n, d>> \in (0..10) \X {1, 2, 3, 10} : n <= d}

InterpolateCalls ==
    {[fn |-> "_interpolate_heading", start_heading |-> a, end_heading |-> b,
      num |-> f[1], den |-> f[2]] :
        a \in BoundaryHeadings, b \in BoundaryHeadings, f \in Factors}

\* The days on which datetime.now() may be read by parse_time.
Clocks == {TodayOrdinal, TodayOrdinal + 1}

DecodeCalls ==
    {[fn |-> "parse_position_record", line |-> l, flight_date |-> d,
      timezone_offset |-> tz] :
        l \in {BRec(12, 0, 0, 0, 0, 10),
               BRec(23, 59, 59, 12, 45, 25), BadBRec},
        d \in {None, Some(DateOrdinal(2025, 5, 23))},
        tz \in {0, secondsFromString(TzHours(1))}}

\* A point as calculate_derived_values leaves it, before apply_smoothing.
AttitudePoint(heading, pitch, roll) ==
    [TIME |-> 0, LAT |-> 0, LONG |-> 0, ALTMSL |-> 0, HEADING |-> heading,
     PITCH |-> pitch, ROLL |-> roll, drefs |-> NoDrefs, synthetic |-> FALSE]

TrimSettings ==
    {to_dict([DefaultTailSettings EXCEPT !.heading_trim = h, !.pitch_trim = p,
                                         !.roll_trim = r]) :
        h \in {0, 100000, 900000}, p \in {0, 50000}, r \in {0, 30000}}

SmoothingCalls ==
    {[fn |-> "apply_smoothing", current_point |-> AttitudePoint(h, p, r),
      prev |-> prev_point, tail_config |-> t] :
        h \in {0, 900000, 3500000}, p \in {0, 50000}, r \in {0, -100000},
        prev_point \in {None, Some(AttitudePoint(900000, 20000, 0))},
        t \in TrimSettings}

\* Configuration files with a tail section [D-5678], an aircraft section
\* listing D-1234 and D-5678, and a section for the default aircraft that
\* lists no tail; command lines with and without --aircraft.
SettingsSections ==
    << Section("Aircraft/Schleicher/ASK21.acf", TRUE, {"D-1234", "D-5678"},
               [NoValues EXCEPT !.headingtrim = Some(25000),
                                !.rollfactor = Some(4)], << >>),
       Section("Aircraft/Default/d.acf", TRUE, {},
               [NoValues EXCEPT !.pitchtrim = Some(70000)], << >>),
       Section("D-5678", FALSE, {},
               [NoValues EXCEPT !.rolltrim = Some(15000)], << >>) >>

SettingsFiles ==
    {[NoConfigFile EXCEPT !.sections = secs, !.aircraft = acf] :
        secs \in {<< >>, SettingsSections, SubSeq(SettingsSections, 1, 1),
                  SubSeq(SettingsSections, 2, 3)},
        acf \in {None, Some("Aircraft/Default/d.acf")}}

SettingsCalls ==
    {[fn |-> "get_tail_settings", file |-> f, cli |-> c, tail_number |-> t] :
        f \in SettingsFiles,
        c \in {NoCli, [NoCli EXCEPT !.aircraft = Some("Aircraft/CLI/x.acf")]},
        t \in {"D-1234", "D-5678", "D-9999"}}

\* Calls of calculate_derived_values from a previous point at 0N 0E: the
\* current point lies 0.005' north-east (course 45) or 0.001' east (course
\* 90, 1.85 m), fresh (ROLL 0) or already carrying a roll as a gap point
\* or a re-estimated end point does.
EstimatorPoint(lat, lon, heading, roll) ==
    [AttitudePoint(heading, 0, roll) EXCEPT !.LAT = lat, !.LONG = lon]

EstimatorCalls ==
    {[fn |-> "calculate_derived_values",
      current_point |-> EstimatorPoint(pos[1], pos[2], 0, roll),
      prev_point |-> EstimatorPoint(0, 0, heading, 0),
      time_diff |-> time_diff] :
        pos \in {<<210004200, 210004200>>, <<0, 42000840>>},
        roll \in {0, 39010},
        heading \in {100000, 450000, 800000, 899980, 900000, 900030,
                     2250000, 3500000},
        time_diff \in {1, 2}}

CallInit ==
    /\ ParseIdle
    /\ BatchIdle
    /\ result = None
    /\ \/ call \in HeadingCalls
       \/ call \in InterpolateCalls
       \/ call \in DecodeCalls
       \/ call \in SmoothingCalls
       \/ call \in SettingsCalls
       \/ call \in EstimatorCalls

CallCalculateHeading ==
    /\ call.fn = "calculateHeading"
    /\ IsNone(result)
    /\ result' = Some(calculateHeading(call.lat1, call.lon1, call.lat2, call.lon2,
                                       call.fallback))
    /\ UNCHANGED << call, parse_vars, batch_vars >>

CallInterpolateHeading ==
    /\ call.fn = "_interpolate_heading"
    /\ IsNone(result)
    /\ result' = Some(interpolate_heading(call.start_heading, call.end_heading,
                                          call.num, call.den))
    /\ UNCHANGED << call, parse_vars, batch_vars >>

\* One run of parse_position_record; the record may be decoded again later.
CallParsePositionRecord ==
    /\ call.fn = "parse_position_record"
    /\ Len(result) < 2
    /\ \E now \in Clocks :
          result' = Append(result, ParsePositionRecord(call.line, call.flight_date,
                                                       call.timezone_offset, now))
    /\ UNCHANGED << call, parse_vars, batch_vars >>

CallApplySmoothing ==
    /\ call.fn = "apply_smoothing"
    /\ IsNone(result)
    /\ result' = Some(apply_smoothing(call.current_point, call.prev,
                                      call.tail_config))
    /\ UNCHANGED << call, parse_vars, batch_vars >>

\* Config(cli_args).tail(tail_number)
CallGetTailSettings ==
    /\ call.fn = "get_tail_settings"
    /\ IsNone(result)
    /\ result' = Some(get_tail_settings(load_config(call.file, call.cli),
                                        call.tail_number))
    /\ UNCHANGED << call, parse_vars, batch_vars >>

CallCalculateDerivedValues ==
    /\ call.fn = "calculate_derived_values"
    /\ IsNone(result)
    /\ result' = Some(calculate_derived_values(call.current_point,
                                               call.prev_point, call.time_diff))
    /\ UNCHANGED << call, parse_vars, batch_vars >>

CallNext ==
    \/ CallCalculateHeading
    \/ CallInterpolateHeading
    \/ CallParsePositionRecord
    \/ CallApplySmoothing
    \/ CallGetTailSettings
    \/ CallCalculateDerivedValues

CallSpec == CallInit /\ [][CallNext]_vars

\* ------------------------------------------------------------------------
\* Properties
\* ------------------------------------------------------------------------

\* C1: the returned track is monotonically non-decreasing in time: for
\* every two consecutive track points p, q, p.TIME <= q.TIME, for any input
\* lines and any timezone offset (samples on both sides of midnight after
\* the offset included).
C1_TrackNonDecreasingInTime ==
    \A k \in 1..(Len(fdr_flight.track) - 1) :
        fdr_flight.track[k].TIME <= fdr_flight.track[k + 1].TIME

\* A line the first pass keeps: a B record of at least 35 characters that
\* parses without error.
KeptLine(line) ==
    /\ line.type = "B"
    /\ line.len >= 35
    /\ ~ParsePositionRecord(line, flight_date, fdr_flight.timezone,
                            TodayOrdinal).err

\* C2: the returned track equals the track built from the same input with
\* every line removed that is not a B record, is shorter than 35
\* characters, or raises a parse error: a corrupt line never discards the
\* valid records before and after it.
C2_CorruptLinesOnlySkipped ==
    pc = "done" =>
        fdr_flight.track =
            build_track_from_lines(SelectSeq(lines, KeptLine), flight_meta,
                                   flight_date, fdr_flight.timezone,
                                   TodayOrdinal, config).track_points

\* C2's case: a file whose middle line is a damaged B record between two
\* good ones, both of which reach the track.
C2_DamagedRecordBetweenGoodOnes ==
    /\ pc = "done"
    /\ \E i, j, k \in 1..Len(lines) :
          /\ i < j /\ j < k
          /\ KeptLine(lines[i]) /\ KeptLine(lines[k])
          /\ lines[j].type = "B" /\ ~KeptLine(lines[j])
    /\ Len(fdr_flight.track) >= 2


\* x is the linear interpolation at fraction i/n between a and b.
LinearAt(a, b, i, n, x) ==
    (b - a) % n = 0 /\ x = a + i * ((b - a) \div n)

\* Track points k < j are recorded samples with only synthetic points
\* between them.
NeighbouringSamples(track, k, j) ==
    /\ k < j
    /\ ~track[k].synthetic /\ ~track[j].synthetic
    /\ \A m \in (k + 1)..(j - 1) : track[m].synthetic

\* C3: when two consecutive accepted samples are N whole seconds apart with
\* 2 <= N <= 10, exactly N-1 synthetic points lie between them, at times
\* t+1 .. t+N-1, the i-th at the linear interpolation i/N of latitude,
\* longitude and altitude; when N > 10 or N = 1 there is none.
C3_GapsFilledByInterpolation ==
    \A k, j \in 1..Len(fdr_flight.track) :
        NeighbouringSamples(fdr_flight.track, k, j) =>
            LET p == fdr_flight.track[k]
                q == fdr_flight.track[j]
                N == Abs(q.TIME - p.TIME)
            IN  /\ (N >= 2 /\ N <= 10) =>
                     /\ j - k = N
                     /\ \A i \in 1..(N - 1) :
                           /\ fdr_flight.track[k + i].TIME = p.TIME + i
                           /\ LinearAt(p.LAT, q.LAT, i, N,
                                       fdr_flight.track[k + i].LAT)
                           /\ LinearAt(p.LONG, q.LONG, i, N,
                                       fdr_flight.track[k + i].LONG)
                           /\ LinearAt(p.ALTMSL, q.ALTMSL, i, N,
                                       fdr_flight.track[k + i].ALTMSL)
                /\ (N > 10 \/ N = 1) => j = k + 1

IsRecorded(point) == ~point.synthetic

\* A track point is the sample c: same time, position and altitude.
SameSample(point, c) ==
    /\ point.TIME = c.TIME /\ point.LAT = c.LAT
    /\ point.LONG = c.LONG /\ point.ALTMSL = c.ALTMSL

GreatCircle(a, b) == calculateDistance(a.LAT, a.LONG, b.LAT, b.LONG)

\* The first-listed among the candidates nearest to prev.
NearestIndex(group, prev) ==
    CHOOSE j \in 1..Len(group) :
        /\ \A m \in 1..Len(group) :
              GreatCircle(prev, group[j]) <= GreatCircle(prev, group[m])
        /\ \A m \in 1..(j - 1) :
              GreatCircle(prev, group[m]) > GreatCircle(prev, group[j])

\* C4: of every group of samples sharing a second exactly one appears in the
\* track: the candidate nearest by great-circle distance to the previously
\* accepted track point, the first-listed among equally near ones; the
\* first-listed sample when there is no previous point; a group of one
\* passes through unchanged.
C4_NearestDuplicateKept ==
    pc \in {"track", "done"} =>
        LET recorded == SelectSeq(builder.track_points, IsRecorded)
        IN  /\ Len(recorded) = idx - 1
            /\ \A k \in 1..Len(recorded) :
                  LET group == points_by_second[sorted_times[k]]
                  IN  SameSample(recorded[k],
                                 group[IF k = 1 THEN 1
                                       ELSE NearestIndex(group, recorded[k - 1])])

\* C4's case: a group of several samples whose kept sample is not the
\* first-listed one, and a group with two equally near candidates.
C4_LaterDuplicateKept ==
    /\ pc = "done"
    /\ LET recorded == SelectSeq(builder.track_points, IsRecorded)
       IN  \E k \in 2..Len(recorded) :
              LET group == points_by_second[sorted_times[k]]
              IN  /\ Len(group) >= 2
                  /\ ~SameSample(recorded[k], group[1])
                  /\ SameSample(recorded[k], group[Len(group)])

\* C7: every two consecutive track points differ in time by at most one
\* second, except where the two are accepted samples more than 10 seconds
\* apart (an unfilled gap).
C7_NeighboursOneSecondApart ==
    \A k \in 1..(Len(fdr_flight.track) - 1) :
        LET p == fdr_flight.track[k]
            q == fdr_flight.track[k + 1]
        IN  \/ Abs(q.TIME - p.TIME) <= 1
            \/ (~p.synthetic /\ ~q.synthetic /\ Abs(q.TIME - p.TIME) > 10)


\* C5: every track point, recorded or synthetic, for any configured heading
\* trim, has HEADING in [0, 360).
C5_HeadingInRange ==
    \A k \in 1..Len(fdr_flight.track) :
        /\ fdr_flight.track[k].HEADING >= 0
        /\ fdr_flight.track[k].HEADING < 3600000

\* C6: every track point has PITCH and ROLL in (-180, 180], for any
\* configured damping factors and pitch/roll trims.
C6_PitchRollInRange ==
    \A k \in 1..Len(fdr_flight.track) :
        /\ fdr_flight.track[k].PITCH > -1800000
        /\ fdr_flight.track[k].PITCH <= 1800000
        /\ fdr_flight.track[k].ROLL > -1800000
        /\ fdr_flight.track[k].ROLL <= 1800000

\* The line is 'HFDTE' followed by six digits DDMMYY that name a day.
IsDateHeader(line) ==
    /\ line.type = "H" /\ line.code = "FDTE" /\ line.len >= 11
    /\ IsInt(line.dd) /\ IsInt(line.mm) /\ IsInt(line.yy)
    /\ ValidDate(2000 + IntOf(line.yy), IntOf(line.mm), IntOf(line.dd))

\* C8: a date header 'HFDTE' + DDMMYY (such as the 11-character line
\* HFDTE230525) is decoded to the flight date DD.MM.(2000+YY), and that date
\* is the date of every track point's timestamp.  Stated for a file whose
\* first line is its only date header.
C8_DateHeaderGivesFlightDate ==
    ( /\ pc = "done"
      /\ IsDateHeader(lines[1])
      /\ \A i \in 2..Len(lines) : lines[i].code # "FDTE" )
    => LET day == DateOrdinal(2000 + IntOf(lines[1].yy), IntOf(lines[1].mm),
                              IntOf(lines[1].dd))
       IN  /\ flight_date = Some(day)
           /\ \A k \in 1..Len(fdr_flight.track) :
                 DateOfTime(fdr_flight.track[k].TIME) = day

\* The expressions whose evaluation fails: a division by zero and an
\* unknown placeholder.
FailingExpressions == {"{Speed} / 0", "{Airspeed}"}

\* The ground speed between two successive track points, as the Speed
\* placeholder holds it (0 for the first point).
SpeedBetween(track, k) ==
    IF k = 1 \/ track[k].TIME <= track[k - 1].TIME THEN 0
    ELSE RoundDiv(SpeedKts(GreatCircle(track[k - 1], track[k]),
                           track[k].TIME - track[k - 1].TIME), 100)

\* C9: when the evaluation of a channel's expression fails for a point, that
\* channel is 0 on the point, the other channels of the point keep their
\* evaluated values, the point is still appended and the later points are
\* still processed.
C9_FailedChannelIsZero ==
    LET track == builder.track_points
        sources == drefsByTail(config, TailNumberOf(flight_meta))
    IN  /\ \A k \in 1..Len(track) : \A n \in 1..Len(sources) :
              /\ sources[n].name \in DOMAIN track[k].drefs
              /\ sources[n].expression \in FailingExpressions
                    => track[k].drefs[sources[n].name] = 0
              /\ sources[n].expression = "round({ALTMSL}, 4)"
                    => track[k].drefs[sources[n].name]
                          = RoundDiv(track[k].ALTMSL, InterpDenominator)
              /\ sources[n].expression = "round({Speed}, 4)"
                    => track[k].drefs[sources[n].name] = SpeedBetween(track, k)
        /\ pc \in {"track", "done"}
              => Len(SelectSeq(track, IsRecorded)) = idx - 1

\* C9's case: a configuration with a failing channel between good ones, and
\* a synthetic point followed by a recorded one, both carrying the failed
\* channel as 0 beside non-zero good channels.
C9_FailedChannelBesideGoodOnes ==
    /\ pc = "done"
    /\ \E k \in 2..Len(fdr_flight.track) :
          /\ fdr_flight.track[k - 1].synthetic
          /\ ~fdr_flight.track[k].synthetic
          /\ \A m \in {k - 1, k} :
                /\ DOMAIN fdr_flight.track[m].drefs
                      = {"Altimeter", "Broken", "vvi_fpm_pilot", "GndSpd"}
                /\ fdr_flight.track[m].drefs["Broken"] = 0
                /\ fdr_flight.track[m].drefs["Altimeter"] > 0
                /\ fdr_flight.track[m].drefs["GndSpd"] > 0

\* The channel name is a ground-speed synonym, case-insensitively.
IsGroundSpeedName(name) ==
    Lower(name) \in {"groundspeed", "gndspd", "ground_speed"}

\* Every DREF definition of the configuration file.
RECURSIVE SectionDrefs(_)
SectionDrefs(sections) ==
    IF sections = << >> THEN << >>
    ELSE Head(sections).drefs \o SectionDrefs(Tail(sections))

\* C10: for any configuration and tail, every track point carries a channel
\* whose name is a ground-speed synonym; when no configured DREF has such a
\* name, it is the default channel GndSpd with expression round({Speed}, 4).
C10_GroundSpeedChannelPresent ==
    /\ \A k \in 1..Len(builder.track_points) :
          \E name \in DOMAIN builder.track_points[k].drefs :
              IsGroundSpeedName(name)
    /\ LET configured == config_file.drefs \o SectionDrefs(config_file.sections)
       IN  ( /\ pc # "config"
             /\ \A n \in 1..Len(configured) :
                   ~IsGroundSpeedName(get_column_name(configured[n])) )
           => /\ \E n \in 1..Len(config.default_drefs) :
                    /\ config.default_drefs[n].name = "GndSpd"
                    /\ config.default_drefs[n].expression = "round({Speed}, 4)"
              /\ \A k \in 1..Len(builder.track_points) :
                    /\ "GndSpd" \in DOMAIN builder.track_points[k].drefs
                    /\ builder.track_points[k].drefs["GndSpd"]
                          = SpeedBetween(builder.track_points, k)

\* C10's case: a flight converted with no DREF definition at all, whose
\* moving points carry the synthesized GndSpd channel.
C10_DefaultGroundSpeedSynthesized ==
    /\ pc = "done"
    /\ config_file.drefs = << >> /\ config_file.sections = << >>
    /\ \E k \in 1..Len(fdr_flight.track) :
          /\ DOMAIN fdr_flight.track[k].drefs = {"GndSpd"}
          /\ fdr_flight.track[k].drefs["GndSpd"] > 0

\* C11: at handoff to the writer every point of the track, recorded or
\* synthetic, has a value for every channel name that drefsByTail returns
\* for the flight's tail, so that write_track_points never looks up a
\* missing channel.
C11_EveryChannelPopulated ==
    pc = "done"
    => /\ \A k \in 1..Len(fdr_flight.track) :
             HasChannels(fdr_flight.track[k], drefsByTail(config, fdr_flight.TAIL))
       /\ ~write_file(config, fdr_flight).err
       /\ Len(write_file(config, fdr_flight).val.rows) = Len(fdr_flight.track)

\* C11's case: a flight of a tail with channels of its own section beside
\* the default ones, handed over with a synthetic and a recorded point.
C11_TailChannelsOnSyntheticPoint ==
    /\ pc = "done"
    /\ fdr_flight.TAIL = "D-1234"
    /\ Len(drefsByTail(config, "D-1234")) > Len(drefsByTail(config, DEFAULT_UNKNOWN_TEXT))
    /\ \E k \in 2..Len(fdr_flight.track) :
          /\ fdr_flight.track[k - 1].synthetic
          /\ ~fdr_flight.track[k].synthetic

\* C12: process_file reports failure (returns False, and process_files
\* counts no success) for a readable input file that holds no valid position
\* record after full processing.
C12_NoPositionRecordIsFailure ==
    \A k \in 1..Len(returned) :
        ( /\ file_paths[k].exists /\ file_paths[k].readable
          /\ getFiletype(file_paths[k].lines) = "IGC"
          /\ parse_file(file_paths[k].lines, config, TodayOrdinal).track = << >> )
        => ~returned[k]

\* The output files of the successful ones among the first n files, in list
\* order: each named after its input and holding the converted flight.
RECURSIVE OutputsOf(_, _, _)
OutputsOf(files, ok, n) ==
    IF n = 0 THEN << >>
    ELSE IF ok[n]
         THEN Append(OutputsOf(files, ok, n - 1),
                     [path |-> files[n].name,
                      content |-> write_file(config, parse_file(files[n].lines, config,
                                                                TodayOrdinal)).val])
    ELSE OutputsOf(files, ok, n - 1)

\* C13: process_files attempts every listed file exactly once, in list
\* order; a failing file (missing, unreadable, unsupported, or raising) does
\* not keep the files after it from being processed; on completion
\* success_count + failure_count is the number of listed files, and one
\* output file has been written per successful input.
C13_BatchIndependentPerFile ==
    /\ main_pc \in {"loop", "done"} => Len(returned) = file_index - 1
    /\ \A k \in 1..Len(returned) :
          returned[k] = process_file(config, file_paths[k], TodayOrdinal).ok
    /\ success_count = Cardinality({k \in 1..Len(returned) : returned[k]})
    /\ failure_count = Cardinality({k \in 1..Len(returned) : ~returned[k]})
    /\ written = OutputsOf(file_paths, returned, Len(returned))
    /\ main_pc = "done"
          => /\ Len(returned) = Len(file_paths)
             /\ success_count + failure_count = Len(file_paths)
             /\ Len(written) = success_count

\* C13's case: a finished batch in which a flight is converted after a
\* file that failed and before another that failed.
C13_SuccessBetweenFailures ==
    /\ main_pc = "done"
    /\ Len(file_paths) = 3
    /\ ~file_paths[1].exists
    /\ returned = << FALSE, TRUE, FALSE >>
    /\ Len(written) = 1
    /\ Len(written[1].content.rows) >= 2

\* C14: calculateHeading on two points less than 1 metre apart returns
\* exactly the supplied fallback heading when one is supplied and the
\* sentinel 360.0 when none is; with no fallback it never returns 0.
C14_StationaryHeadingFallback ==
    (call.fn = "calculateHeading" /\ ~IsNone(result))
    => /\ calculateDistance(call.lat1, call.lon1, call.lat2, call.lon2) < 1000
             => result[1] = IF IsNone(call.fallback) THEN 3600000
                            ELSE call.fallback[1]
       /\ IsNone(call.fallback) => result[1] # 0

\* C14's case: two different points 0.8 m apart, with a fallback heading.
C14_CloseButDistinctPoints ==
    /\ call.fn = "calculateHeading"
    /\ call.lat1 # call.lat2 /\ call.lon1 # call.lon2
    /\ calculateDistance(call.lat1, call.lon1, call.lat2, call.lon2) \in 500..999
    /\ call.fallback = Some(1234000)
    /\ result = Some(1234000)

\* The angular distance between two headings along the shorter arc.
ArcBetween(a, b) ==
    IF (a - b) % 3600000 <= 1800000 THEN (a - b) % 3600000
    ELSE 3600000 - ((a - b) % 3600000)

\* C15: _interpolate_heading(start, end, f), for start and end in [0, 360]
\* and f in [0, 1], returns a value in [0, 360) on the shortest arc from
\* start to end: (start + f * d) mod 360 with d = end - start wrapped into
\* [-180, 180], so that the step from start never exceeds 180 degrees.
C15_ShortestArcInterpolation ==
    (call.fn = "_interpolate_heading" /\ ~IsNone(result))
    => /\ result[1] >= 0 /\ result[1] < 3600000
       /\ \E d \in {call.end_heading - call.start_heading + k * 3600000 :
                       k \in {-1, 0, 1}} :
             /\ d >= -1800000 /\ d <= 1800000
             /\ result[1] = (call.start_heading + RoundDiv(d * call.num, call.den))
                            % 3600000
             /\ ArcBetween(result[1], call.start_heading)
                   = RoundDiv(Abs(d) * call.num, call.den) % 3600000
       /\ ArcBetween(result[1], call.start_heading) <= 1800000

\* C15's case: from 350 to 10 degrees at factor 0.5 the result is 0, not 180.
C15_AcrossNorth ==
    /\ call.fn = "_interpolate_heading"
    /\ call.start_heading = 3500000 /\ call.end_heading = 100000
    /\ call.num = 1 /\ call.den = 2
    /\ result = Some(0)

\* The B records of the file, in file order.
IsBRecord(line) == line.type = "B"

Decoded(line) ==
    ParsePositionRecord(line, flight_date, fdr_flight.timezone, TodayOrdinal).val

\* Every B record of the file is valid and each is decoded to the second
\* after the one before it.
ConsecutiveRecords(records) ==
    /\ records # << >>
    /\ \A i \in 1..Len(records) : KeptLine(records[i])
    /\ \A i \in 1..(Len(records) - 1) :
          Decoded(records[i + 1]).TIME = Decoded(records[i]).TIME + 1

\* The placeholders of the kinematic values of track_data.
KinematicPlaceholders ==
    {"{Speed}", "{Course}", "{VerticalSpeed}", "{Pitch}", "{Bank}",
     "round({Speed}, 4)"}

\* C16: for N valid position records at N distinct consecutive seconds (no
\* gap, no duplicate) the track has exactly N points, one per record in time
\* order; the first point has Speed, Course, VerticalSpeed, Pitch and Bank
\* all 0, and every later point whose latitude or longitude differs from
\* its predecessor's has a ground speed > 0.
C16_OnePointPerConsecutiveRecord ==
    LET records == SelectSeq(lines, IsBRecord)
        sources == drefsByTail(config, fdr_flight.TAIL)
        track == fdr_flight.track
    IN  (pc = "done" /\ ConsecutiveRecords(records))
        => /\ Len(track) = Len(records)
           /\ \A i \in 1..Len(records) :
                 /\ i <= Len(track)
                 /\ track[i].TIME = Decoded(records[i]).TIME
                 /\ track[i].LAT = Decoded(records[i]).LAT
                 /\ track[i].LONG = Decoded(records[i]).LONG
                 /\ ~track[i].synthetic
           /\ \A n \in 1..Len(sources) :
                 sources[n].expression \in KinematicPlaceholders
                    => track[1].drefs[sources[n].name] = 0
           /\ \A i \in 2..Len(track) : \A n \in 1..Len(sources) :
                 ( /\ sources[n].expression \in {"{Speed}", "round({Speed}, 4)"}
                   /\ \/ track[i].LAT # track[i - 1].LAT
                      \/ track[i].LONG # track[i - 1].LONG )
                 => track[i].drefs[sources[n].name] > 0

\* C17: two runs of parse_position_record on the same record line with the
\* same decoded flight date (none decoded included) and the same timezone
\* offset yield identical TIME, LAT, LONG and ALTMSL, whenever they happen.
C17_DecodingIndependentOfClock ==
    (call.fn = "parse_position_record" /\ Len(result) = 2 /\ ~result[1].err)
    => /\ ~result[2].err
       /\ result[2].val.TIME = result[1].val.TIME
       /\ result[2].val.LAT = result[1].val.LAT
       /\ result[2].val.LONG = result[1].val.LONG
       /\ result[2].val.ALTMSL = result[1].val.ALTMSL

\* The point apply_smoothing returns when every trim is 0: the scaled and
\* smoothed attitude, with the heading fallback.
Untrimmed(current_point, prev, tail_config) ==
    apply_smoothing(current_point, prev,
                    [tail_config EXCEPT !.headingtrim = 0, !.pitchtrim = 0,
                                        !.rolltrim = 0])

\* C18: apply_smoothing adds headingtrim, pitchtrim and rolltrim to the
\* heading, pitch and roll of every point and re-normalizes them, whether or
\* not a heading discontinuity is detected.
C18_TrimsAddedToEveryPoint ==
    (call.fn = "apply_smoothing" /\ ~IsNone(result))
    => LET base == Untrimmed(call.current_point, call.prev, call.tail_config)
           t == call.tail_config
       IN  /\ result[1].HEADING = Round3(wrapHeading(base.HEADING + t.headingtrim))
           /\ result[1].PITCH = Round3(wrapAttitude(base.PITCH + t.pitchtrim))
           /\ result[1].ROLL = Round3(wrapAttitude(base.ROLL + t.rolltrim))

\* The recorded samples show no position or altitude variation and come
\* one per second.
LevelTrack(track) ==
    \A i \in 2..Len(track) :
        /\ track[i].LAT = track[1].LAT
        /\ track[i].LONG = track[1].LONG
        /\ track[i].ALTMSL = track[1].ALTMSL
        /\ track[i].TIME = track[i - 1].TIME + 1

\* C19: in a flight without position or altitude variation (one sample per
\* second, damping factors 0.6/0.8, smoothing weight 0.3, any trims) pitch
\* and roll converge toward 0 and the heading converges to a constant: by
\* the end of a flight of LevelSamples samples the last two headings are
\* equal and pitch and roll are no farther from 0 than one point before.
C19_LevelFlightSettles ==
    LET track == fdr_flight.track
        n == Len(track)
        tail_config == get_tail_settings(config, fdr_flight.TAIL)
    IN  (pc = "done" /\ n = LevelSamples /\ LevelTrack(track)
         /\ tail_config.rollfactor = DEFAULT_ROLL_FACTOR
         /\ tail_config.pitchfactor = DEFAULT_PITCH_FACTOR)
        => /\ track[n].HEADING = track[n - 1].HEADING
           /\ Abs(track[n].PITCH) <= Abs(track[n - 1].PITCH)
           /\ Abs(track[n].ROLL) <= Abs(track[n - 1].ROLL)

\* The offset the command line and the configuration file ask for.
SelectedTimezone ==
    IF ~IsNone(cli_args.timezone) THEN secondsFromString(cli_args.timezone[1])
    ELSE IF ~IsNone(config_file.timezoneigc)
         THEN secondsFromString(config_file.timezoneigc[1])
    ELSE IF ~IsNone(config_file.timezone)
         THEN secondsFromString(config_file.timezone[1])
    ELSE 0

\* The sample of the record without any offset.
DecodedUtc(line) == ParsePositionRecord(line, flight_date, 0, TodayOrdinal).val

\* C20: the offset stored in FdrFlight.timezone and added to every decoded
\* sample time is the command-line timezone when one is given (overriding
\* every timezone of the configuration file, TimezoneIGC included), else the
\* file's TimezoneIGC when set, else the file's Timezone, else 0.
C20_TimezoneSelection ==
    /\ pc # "config" => fdr_flight.timezone = SelectedTimezone
    /\ pc \in {"track", "finish", "done"}
         => \A t \in DOMAIN points_by_second :
              \A i \in 1..Len(points_by_second[t]) :
                 \E n \in 1..Len(lines) :
                    /\ KeptLine(lines[n])
                    /\ points_by_second[t][i].TIME
                         = DecodedUtc(lines[n]).TIME + SelectedTimezone
                    /\ points_by_second[t][i].LAT = DecodedUtc(lines[n]).LAT
                    /\ points_by_second[t][i].LONG = DecodedUtc(lines[n]).LONG
    /\ pc = "done"
         => \A i \in 1..Len(fdr_flight.track) :
              ~fdr_flight.track[i].synthetic
                 => \E n \in 1..Len(lines) :
                       /\ KeptLine(lines[n])
                       /\ fdr_flight.track[i].TIME
                            = DecodedUtc(lines[n]).TIME + SelectedTimezone

\* A finished flight whose command line gives a timezone while the file
\* sets both Timezone and TimezoneIGC to other offsets.
C20_CommandLineOverFileTimezones ==
    /\ pc = "done"
    /\ Len(fdr_flight.track) >= 2
    /\ ~IsNone(cli_args.timezone)
    /\ ~IsNone(config_file.timezoneigc)
    /\ ~IsNone(config_file.timezone)
    /\ secondsFromString(config_file.timezoneigc[1]) # SelectedTimezone
    /\ secondsFromString(config_file.timezone[1]) # SelectedTimezone
    /\ fdr_flight.timezone = secondsFromString(cli_args.timezone[1])
    /\ fdr_flight.timezone # 0

\* The sections of the file that are named as the tail, and the aircraft
\* sections whose Tails list contains the tail.
NamedAsTail(file, tail) ==
    {k \in 1..Len(file.sections) :
        IsTailSection(file.sections[k]) /\ file.sections[k].name = tail}

ListingTail(file, tail) ==
    {k \in 1..Len(file.sections) :
        IsAircraftSection(file.sections[k]) /\ tail \in file.sections[k].tails}

Least(S) == CHOOSE k \in S : \A j \in S : k <= j

\* C21: get_tail_settings(tail) gives the settings of the section named
\* exactly as the tail when one exists; otherwise the trims and factors of
\* the aircraft section whose Tails list contains the tail; otherwise the
\* defaults (trims 0, roll factor 0.6, pitch factor 0.8).
C21_TailSettingsPrecedence ==
    (call.fn = "get_tail_settings" /\ ~IsNone(result))
    => LET named == NamedAsTail(call.file, call.tail_number)
           listing == ListingTail(call.file, call.tail_number)
       IN  result[1] =
              IF named # {}
              THEN to_dict(SectionSettings(call.file.sections[Least(named)]))
              ELSE IF listing # {}
              THEN to_dict(SectionSettings(call.file.sections[Least(listing)]))
              ELSE to_dict(DefaultTailSettings)

\* C22: during build_track_from_lines calculate_derived_values is invoked
\* exactly once for each track point other than the first, in increasing
\* time order, each time with the immediately preceding track point (real
\* or synthetic) as prev_point; a sample after a time gap is not estimated
\* twice or against a non-adjacent point.
C22_EstimatedOnceAgainstPredecessor ==
    pc = "done"
    => /\ Len(estimations) = IF fdr_flight.track = << >> THEN 0
                             ELSE Len(fdr_flight.track) - 1
       /\ \A i \in 1..Len(estimations) :
             /\ i + 1 <= Len(fdr_flight.track)
             /\ estimations[i].TIME = fdr_flight.track[i + 1].TIME
             /\ estimations[i].prev_point = fdr_flight.track[i]
             /\ estimations[i].time_diff > 0

\* C23: a track point is immutable once appended: no later step of
\* build_track_from_lines (gap filling, estimation, smoothing, trim, DREF
\* evaluation of later points) changes the TIME, LAT, LONG, ALTMSL, HEADING,
\* PITCH, ROLL or drefs of a point already in the track.
C23_AppendedPointsUnchanged ==
    [][/\ Len(builder'.track_points) >= Len(builder.track_points)
       /\ \A i \in 1..Len(builder.track_points) :
             builder'.track_points[i] = builder.track_points[i]
       /\ pc' = "done" => fdr_flight'.track = builder.track_points]_vars

\* A finished track in which a recorded point, a synthetic gap point and a
\* later recorded point with another heading were appended after the first.
C23_PointsAppendedAfterGapFilling ==
    /\ pc = "done"
    /\ Len(fdr_flight.track) >= 4
    /\ \E i \in 2..(Len(fdr_flight.track) - 1) :
          /\ fdr_flight.track[i].synthetic
          /\ fdr_flight.track[i + 1].HEADING # fdr_flight.track[i].HEADING
          /\ fdr_flight.track[i].HEADING # fdr_flight.track[i - 1].HEADING

\* The time, latitude, longitude and pressure altitude columns of the
\* record are all integers.
FieldsAreIntegers(line) ==
    /\ IsInt(line.hh) /\ IsInt(line.mi) /\ IsInt(line.ss)
    /\ IsInt(line.latDeg) /\ IsInt(line.latMin) /\ IsInt(line.latFrac)
    /\ IsInt(line.lonDeg) /\ IsInt(line.lonMin) /\ IsInt(line.lonFrac)
    /\ IsInt(line.altP)

\* C24: a position record in which a field (time, latitude, longitude or
\* altitude) fails to parse as an integer is skipped: it contributes no
\* point to the track, and the records after it are processed.
C24_UnparsableFieldSkipsRecord ==
    pc = "done"
    => /\ \A i \in 1..Len(fdr_flight.track) :
             IsRecorded(fdr_flight.track[i])
             => \E n \in 1..Len(lines) :
                   /\ KeptLine(lines[n])
                   /\ FieldsAreIntegers(lines[n])
                   /\ SameSample(fdr_flight.track[i], Decoded(lines[n]))
       /\ \A n \in 1..Len(lines) :
             (KeptLine(lines[n]) /\ FieldsAreIntegers(lines[n]))
             => \E i \in 1..Len(fdr_flight.track) :
                   fdr_flight.track[i].TIME = Decoded(lines[n]).TIME

\* The record holds the five columns of the GPS altitude: those after the
\* pressure altitude that follows the 'A' marker, or columns 30..34.
GpsFieldPresent(line) ==
    IF line.apos > 0 THEN line.len >= line.apos + 11 ELSE line.len >= 35

\* The altitude in metres the record stands for: the GPS altitude when its
\* field is present and an integer, else the pressure altitude.
PreferredAltitude(line) ==
    IF GpsFieldPresent(line) /\ IsInt(line.altG) THEN IntOf(line.altG)
    ELSE IF IsInt(line.altP) THEN IntOf(line.altP)
    ELSE 0

\* C25: for every accepted position record the decoded altitude (in feet)
\* is the GPS altitude whenever the record's 5-digit GPS altitude field is
\* present and parses as an integer, on the 'A'-marker path and on the
\* fixed-column path alike; the pressure altitude is used only when the GPS
\* field is absent or invalid.
C25_GpsAltitudePreferred ==
    pc = "done"
    => \A n \in 1..Len(lines) : \A i \in 1..Len(fdr_flight.track) :
          ( /\ KeptLine(lines[n])
            /\ IsRecorded(fdr_flight.track[i])
            /\ fdr_flight.track[i].TIME = Decoded(lines[n]).TIME
            /\ fdr_flight.track[i].LAT = Decoded(lines[n]).LAT
            /\ fdr_flight.track[i].LONG = Decoded(lines[n]).LONG )
          => fdr_flight.track[i].ALTMSL
                = MetersToFeet(PreferredAltitude(lines[n]))

\* The definitions that apply to the flight's tail, in the order default,
\* aircraft level, tail level.
DefinitionsInOrder ==
    LET a == SectionIndex(config.aircraft_settings,
                          acftByTail(config, fdr_flight.TAIL), 1)
        t == SectionIndex(config.tail_settings, Some(fdr_flight.TAIL), 1)
    IN  config.default_drefs
        \o (IF a > 0 THEN config.aircraft_settings[a].drefs ELSE << >>)
        \o (IF t > 0 THEN config.tail_settings[t].drefs ELSE << >>)

\* No definition after the k-th has the k-th definition's column name.
IsLastOfChannel(defs, k) ==
    \A j \in (k + 1)..Len(defs) :
        get_column_name(defs[j]) # get_column_name(defs[k])

IsFirstOfChannel(defs, k) ==
    \A j \in 1..(k - 1) : get_column_name(defs[j]) # get_column_name(defs[k])

\* C26: drefsByTail merges the definitions in the order default, aircraft
\* level, tail level; when two definitions have the same channel (column)
\* name the later one's expression is the one evaluated for the channel.
C26_LaterDefinitionShadows ==
    pc = "done"
    => LET defs == DefinitionsInOrder
           sources == drefsByTail(config, fdr_flight.TAIL)
           firsts == SelectSeq([k \in 1..Len(defs) |-> k],
                               LAMBDA k : IsFirstOfChannel(defs, k))
       IN  /\ Len(sources) = Len(firsts)
           /\ \A m \in 1..Len(firsts) :
                 m <= Len(sources)
                 /\ sources[m].name = get_column_name(defs[firsts[m]])
           /\ \A k \in 1..Len(defs) : \A m \in 1..Len(sources) :
                 ( /\ IsLastOfChannel(defs, k)
                   /\ sources[m].name = get_column_name(defs[k]) )
                 => /\ sources[m].expression = defs[k].expression
                    /\ \A i \in 1..Len(fdr_flight.track) :
                          defs[k].expression = "round({ALTMSL}, 4)"
                          => fdr_flight.track[i].drefs[sources[m].name]
                                = RoundDiv(fdr_flight.track[i].ALTMSL,
                                           InterpDenominator)

\* A finished flight whose channel Altimeter is defined at all three levels
\* with different expressions, the tail level giving the altitude.
C26_TailShadowsAircraftShadowsDefault ==
    /\ pc = "done"
    /\ Len(fdr_flight.track) = 2
    /\ \E i, j, k \in 1..Len(DefinitionsInOrder) :
          /\ i < j /\ j < k
          /\ get_column_name(DefinitionsInOrder[i]) = "Altimeter"
          /\ get_column_name(DefinitionsInOrder[j]) = "Altimeter"
          /\ get_column_name(DefinitionsInOrder[k]) = "Altimeter"
          /\ DefinitionsInOrder[i].expression = "{VerticalSpeed}"
          /\ DefinitionsInOrder[j].expression = "{Course}"
          /\ DefinitionsInOrder[k].expression = "round({ALTMSL}, 4)"
    /\ fdr_flight.track[2].drefs["Altimeter"]
          = RoundDiv(fdr_flight.track[2].ALTMSL, InterpDenominator)
    /\ fdr_flight.track[2].ALTMSL # 0

\* The recorded point the iteration over one timestamp key works on.
SelectedPoint(st, points_at_time) ==
    IF Len(points_at_time) = 1 THEN points_at_time[1]
    ELSE select_best_duplicate_point(points_at_time, st.prev_point)

\* The result [end_point, gap_points] of _fill_time_gap in the gap branch
\* for the recorded point that ends the gap.
FilledGap(st, point) ==
    fill_time_gap(st.prev_point[1],
                  calculate_derived_values(point, st.prev_point[1],
                                           point.TIME - st.prev_time[1]).point,
                  point.TIME - st.prev_time[1])

\* The gap point handed to apply_smoothing if its interpolated PITCH and
\* ROLL are kept: only the heading is overridden.
InterpolatedGapPoint(gap_point, prev_point, end_point, time_diff) ==
    [gap_point EXCEPT !.HEADING =
        interpolate_heading(prev_point.HEADING, end_point.HEADING,
                            gap_point.TIME - prev_point.TIME, time_diff)]

\* The i-th point appended by the step comes from the i-th gap point of f
\* with its interpolated pitch and roll smoothed and trimmed.
KeepsInterpolatedAttitude(old, new, f, i, time_diff, tail_config) ==
    LET smoothed == apply_smoothing(
                        InterpolatedGapPoint(f.gap_points[i], new[Len(old) + i - 1],
                                             f.end_point, time_diff),
                        Some(new[Len(old) + i - 1]), tail_config)
    IN  /\ new[Len(old) + i].PITCH = smoothed.PITCH
        /\ new[Len(old) + i].ROLL = smoothed.ROLL

\* C27: for each synthetic gap point, the pitch and roll that gap filling
\* produces are the linear interpolation at fraction i/N of the pitch and
\* roll of the gap's start and end samples, and these interpolated values
\* are what smoothing and trim are applied to: the estimation of the
\* synthetic point does not replace them.
C27_GapAttitudeInterpolated ==
    [][(pc = "track" /\ Len(builder'.track_points) > Len(builder.track_points) + 1)
       => LET st == builder
              point == SelectedPoint(st, points_by_second[sorted_times[idx]])
              f == FilledGap(st, point)
              N == point.TIME - st.prev_time[1]
          IN  /\ Len(f.gap_points) = N - 1
              /\ \A i \in 1..(N - 1) :
                    /\ f.gap_points[i].PITCH
                          = st.prev_point[1].PITCH
                            + RoundDiv((f.end_point.PITCH - st.prev_point[1].PITCH) * i, N)
                    /\ f.gap_points[i].ROLL
                          = st.prev_point[1].ROLL
                            + RoundDiv((f.end_point.ROLL - st.prev_point[1].ROLL) * i, N)
                    /\ KeepsInterpolatedAttitude(st.track_points,
                           builder'.track_points, f, i, N,
                           TailEnv(config, TailNumberOf(flight_meta)).tail_config)]_vars

\* (current course - previous heading) mod 360 of a finished call of
\* calculate_derived_values.
TurnOfCall ==
    (result[1].derived.Course - call.prev_point.HEADING + DEGREES_IN_CIRCLE)
        % DEGREES_IN_CIRCLE

\* C28: the roll sign follows the turn direction: with elapsed time > 0 and
\* ground speed > 0, calculate_derived_values gives the current point a
\* positive roll when (course - previous heading) mod 360 lies in (0, 180],
\* a negative roll when it lies in (180, 360), and a roll of 0 when the
\* heading change is 0; the turn magnitude used is never more than 180
\* degrees.
C28_RollSignFollowsTurn ==
    (/\ call.fn = "calculate_derived_values"
     /\ ~IsNone(result)
     /\ call.time_diff > 0
     /\ result[1].derived.Speed > 0)
    => /\ (TurnOfCall > 0 /\ TurnOfCall <= 1800000) => result[1].point.ROLL > 0
       /\ TurnOfCall > 1800000 => result[1].point.ROLL < 0
       /\ TurnOfCall = 0 => result[1].point.ROLL = 0
       /\ HeadingChange(result[1].point.HEADING, call.prev_point.HEADING)
             <= 1800000

\* The parse results of the position records of a file that decode.
ValidRecords(file_lines) ==
    {k \in 1..Len(file_lines) :
        /\ IsPositionLine(file_lines[k])
        /\ ~ParsePositionRecord(file_lines[k], flight_date, fdr_flight.timezone,
                                TodayOrdinal).err}

SecondOf(line) ==
    ParsePositionRecord(line, flight_date, fdr_flight.timezone,
                        TodayOrdinal).val.TIME

\* The valid B records of the file have pairwise-distinct seconds.
DistinctSeconds ==
    \A a, b \in ValidRecords(lines) :
        a # b => SecondOf(lines[a]) # SecondOf(lines[b])

\* The places of the position records in the file, and the same file with
\* its position records in another order p (a permutation of the places).
PositionPlaces == {k \in 1..Len(lines) : IsPositionLine(lines[k])}

Reordered(p) ==
    [k \in 1..Len(lines) |->
        IF k \in PositionPlaces THEN lines[p[k]] ELSE lines[k]]

DefinesByTail(cfg, tail_number) ==
    LET a == SectionIndex(cfg.aircraft_settings, acftByTail(cfg, tail_number), 1)
        t == SectionIndex(cfg.tail_settings, Some(tail_number), 1)
    IN  cfg.default_drefs
        \o (IF a > 0 THEN cfg.aircraft_settings[a].drefs ELSE << >>)
        \o (IF t > 0 THEN cfg.tail_settings[t].drefs ELSE << >>)

\* C30: for every tail and every configuration drefsByTail returns exactly
\* one DREF definition line per channel: 'defines' has as many entries as
\* 'sources' has keys, so the DREF lines of the FDR header correspond one
\* to one with the extra columns of each track point.
C30_OneDefinitionPerChannel ==
    pc # "config"
    => \A tail_number \in {fdr_flight.TAIL, "D-1234", "D-9999"} :
          Len(DefinesByTail(config, tail_number))
             = Len(drefsByTail(config, tail_number))

=============================================================================
